---- MODULE Spec2Model ----
(***************************************************************************)
(* A model of super_play's interactive recording core:                     *)
(*   - ActionRecorder (project/core/recorder.py): start, record_action,    *)
(*     stop, get_summary, and the file actions.ndjson it writes;           *)
(*   - RECORDER_SCRIPT (project/core/recorder.py): the page-side listeners,*)
(*     the debounce timer of the input listener, and the binding that      *)
(*     carries each serialized event to record_action;                     *)
(*   - the page identity tracker of run_interact (gen_food.py):            *)
(*     normalize_url and get_or_create_page_id.                            *)
(* Three specifications share the variables: Spec drives the recorder's    *)
(* public methods in any order with arbitrary payload strings, SpecSession *)
(* drives one recording session from the page, SpecTracker drives the      *)
(* tracker.                                                                *)
(***************************************************************************)
EXTENDS Integers, Sequences, FiniteSets, TLC

VARIABLES
    actions,      \* ActionRecorder.actions: the in-memory list
    file,         \* ActionRecorder._file: None, or the open handle
    disk,         \* the content of actions.ndjson: the lines flushed so far
    ret,          \* what the last recorder call did: its name and outcome
    startCalled,  \* history: start() has been called
    stopCalled,   \* history: stop() has been called
    dropped,      \* history: payloads dropped by record_action so far
    recorded,     \* history: record_action calls that recorded an action
    value,        \* page: el.value of every field
    inputTimeout, \* recorder script: its variable inputTimeout (0 is null)
    timers,       \* page: the setTimeout callbacks still pending
    timerIds,     \* page: the number of timer ids handed out
    channel,      \* calls of the binding __recordAction still in flight
    now,          \* the clock, in ms
    occurred,     \* history: user events dispatched in the page so far
    sent,         \* history: sendEvent calls so far
    bursts,       \* history: input bursts begun (an input with no flush pending)
    flushes,      \* history: debounce flushes fired
    lastInputAt,  \* history: the time of the last input event
    actionLog,    \* history: for each entry of actions, the event it records
    diskLog,      \* history: for each line of disk, the event it records
    pages_visited, \* run_interact: the dict pages_visited, in insertion order
    next_page_id, \* run_interact: next_page_id
    visits,       \* history: the calls of get_or_create_page_id and their results
    pc,           \* main / run_interact / run_snapshot: the statement reached
    mode,         \* main: args.mode
    interrupted,  \* run_interact: the flag handle_interrupt sets
    current_url,  \* run_interact: current_url, the last known URL
    pagesOpen,    \* browser: context.pages is not empty
    liveUrl,      \* browser: context.pages[-1].url
    navigations,  \* history: navigations the user made
    error,        \* run_interact: str(e) of the exception its handler caught
    extraction,   \* run_interact: what the final element extraction gave
    result,       \* main: the dict the run returned, once it has returned
    food,         \* the contents written to food.json, in order of writing
    meta,         \* the contents written to meta.json, in order of writing
    exit,         \* the exit status of the process, once it has exited
    shots,        \* history: the screenshot captures attempted
    html,         \* history: the page_<pageId>.html files written
    dom,          \* page: the elements of the document, in document order
    mask_sensitive, \* extract_elements: its argument mask_sensitive
    evaluation,   \* page.evaluate(js_script): whether it returns, or what it raises
    extracted,    \* what the call of extract_elements did, once it is made
    resolved,     \* recorder script: what getCandidates gave for the element
    masked,       \* recorder script: masked of the event sent for the element
    reported,     \* recorder script: value of the event sent for the element
    retryCall,    \* run_with_retry: fn, policy, on_retry and on_fail of the call
    rpc,          \* run_with_retry: the statement reached
    attempt,      \* run_with_retry: attempt, the loop variable
    fnCalls,      \* history: what each call of fn did
    onRetryCalls, \* history: the calls of on_retry
    sleeps,       \* history: the calls of _sleep_backoff
    onFailCalls,  \* history: the calls of on_fail
    retryResult   \* what run_with_retry did, once it has returned or raised

recorderVars ==
    <<actions, file, disk, ret, startCalled, stopCalled, dropped, recorded>>
pageVars == <<value, inputTimeout, timers, timerIds, channel>>
sessionHistory ==
    <<occurred, sent, bursts, flushes, lastInputAt, actionLog, diskLog>>
sessionVars == <<pageVars, now, sessionHistory>>
trackerVars == <<pages_visited, next_page_id, visits>>
browserVars == <<pagesOpen, liveUrl, navigations>>
captureVars == <<shots, html>>
outputVars == <<error, extraction, result, food, meta, exit>>
runVars == <<pc, mode, interrupted, current_url, browserVars, captureVars, outputVars>>
extractVars == <<dom, mask_sensitive, evaluation, extracted, resolved, masked, reported>>
retryVars ==
    <<retryCall, rpc, attempt, fnCalls, onRetryCalls, sleeps, onFailCalls, retryResult>>

\* ---------------------------------------------------------------- bounds
\* The longest action list explored.
MaxActions == 3
\* The most payloads dropped that the history counts.
MaxDropped == 2
\* The most user events dispatched in the page in one session.
MaxEvents == 2
\* The clock advances by TickMs up to MaxTime.
TickMs == 150
MaxTime == 450
\* The most calls of get_or_create_page_id in one session.
MaxVisits == 3

\* ------------------------------------------------------------ JSON values
\* A parsed JSON value (what json.loads returns): k is the Python type,
\* s the text of a str, c the shape of an element's "candidates" member,
\* m the members of a dict (key -> value).
NoMembers == <<>>
Str(s) == [k |-> "str", s |-> s, c |-> "-", m |-> NoMembers]
Null == [k |-> "NoneType", s |-> "", c |-> "-", m |-> NoMembers]
List == [k |-> "list", s |-> "", c |-> "-", m |-> NoMembers]
Dict(members) == [k |-> "dict", s |-> "", c |-> "-", m |-> members]
Bool(b) == [k |-> "bool", s |-> IF b THEN "true" ELSE "false", c |-> "-", m |-> NoMembers]
\* The object getElementInfo builds: tag, id and type of the element, and
\* candidates, a non-empty list of dicts with a string selector ("selectors").
ElementInfo(tag, id, type) ==
    [k |-> "dict", s |-> "", c |-> "selectors",
     m |-> ("tag" :> Str(tag) @@ "id" :> Str(id) @@ "type" :> Str(type))]

\* A str that holds a lone surrogate (JSON text "\ud83d"): json.loads
\* accepts the escape, the utf-8 codec of the sink refuses the character.
LoneSurrogate == "ab<U+D83D>"

Has(doc, key) == doc.k = "dict" /\ key \in DOMAIN doc.m

\* ---------------------------------------------------------------- payloads
\* A payload string handed to record_action, described by its syntax and,
\* when it is JSON text, by the value it denotes.
Malformed == [syntax |-> "malformed", doc |-> Null]
Json(doc) == [syntax |-> "json", doc |-> doc]

ClickEvent ==
    Dict("ts" :> Str("t1") @@ "type" :> Str("click") @@ "url" :> Str("u1")
         @@ "element" :> ElementInfo("button", "go", "submit"))
InputEvent ==
    Dict("ts" :> Str("t2") @@ "type" :> Str("input") @@ "url" :> Str("u2")
         @@ "element" :> ElementInfo("input", "username", "text")
         @@ "value" :> Str("abc") @@ "masked" :> Bool(FALSE))
\* An input event whose 100-char value cut ends inside a surrogate pair.
SurrogateEvent ==
    Dict("ts" :> Str("t3") @@ "type" :> Str("input") @@ "url" :> Str("u1")
         @@ "element" :> ElementInfo("input", "username", "text")
         @@ "value" :> Str(LoneSurrogate) @@ "masked" :> Bool(FALSE))
\* JSON text that is no recorder event: {}, [], {"type": [], "element": "x"}.
EmptyObject == Dict(NoMembers)
OddObject == Dict("type" :> List @@ "element" :> Str("x"))

Payloads ==
    {Malformed, Json(ClickEvent), Json(InputEvent), Json(SurrogateEvent),
     Json(EmptyObject), Json(List), Json(OddObject)}

\* json.loads: the value of JSON text, JSONDecodeError otherwise.
JsonLoads(payload) ==
    IF payload.syntax = "json"
    THEN [exc |-> "none", val |-> payload.doc]
    ELSE [exc |-> "JSONDecodeError", val |-> Null]

\* Whether the utf-8 codec can encode every str of the value.
RECURSIVE Utf8Encodable(_)
Utf8Encodable(doc) ==
    /\ doc.s # LoneSurrogate
    /\ \A key \in DOMAIN doc.m : Utf8Encodable(doc.m[key])

\* json.dumps(action, ensure_ascii=False) + "\n": one line of the file.
\* A line is text, not a value: it is kept apart from the value it denotes.
JsonDumps(doc) == [line |-> doc]
\* Reading a line of the file back with a JSON parser.
ParseLine(ln) == ln.line

\* dict.get(key, default) on a parsed value; AttributeError on a non-dict
\* is the caller's concern (see SummaryLogExc, get_summary).
Get(doc, key, default) == IF key \in DOMAIN doc.m THEN doc.m[key] ELSE default

Truthy(v) ==
    CASE v.k = "NoneType" -> FALSE
      [] v.k = "str" -> v.s # ""
      [] v.k = "list" -> FALSE          \* the only list modelled is []
      [] v.k = "dict" -> v.m # NoMembers
      [] v.k = "bool" -> v.s = "true"
      [] OTHER -> TRUE

\* The exception the summary-log lines of record_action raise, if any.
SummaryLogExc(action) ==
    IF action.k # "dict" THEN "AttributeError"                \* action.get
    ELSE LET element == Get(action, "element", Dict(NoMembers)) IN
         IF ~Truthy(element) THEN "none"
         ELSE IF element.k # "dict" THEN "AttributeError"     \* element.get
         ELSE CASE element.c = "selectors" -> "none"
                [] element.c = "-" -> "none"                  \* no candidates
                [] OTHER -> "AttributeError"                  \* candidates[0].get

\* A handler that names json.JSONDecodeError instead of Exception.
CaughtDecodeErrorOnly(exc) == exc = "JSONDecodeError"

\* The classes "except Exception" catches.
ExceptionClasses ==
    {"JSONDecodeError", "UnicodeEncodeError", "AttributeError", "TypeError"}
Caught(exc) == exc \in ExceptionClasses

Outcome(exc) ==
    IF exc = "none" THEN "logged"
    ELSE IF Caught(exc) THEN "warned" ELSE "raised"

\* ---------------------------------------------------------- ActionRecorder
None == "None"
Open == "open"

RecorderInit ==
    /\ actions = <<>>
    /\ file = None
    /\ disk = <<>>
    /\ ret = [op |-> "__init__", outcome |-> "ok"]
    /\ startCalled = FALSE
    /\ stopCalled = FALSE
    /\ dropped = 0
    /\ recorded = 0

\* open(output_path, "w"): the file is created or truncated; a handle still
\* held is released by the assignment.
OpenForWriting(content) == <<>>

start ==
    /\ file' = Open
    /\ disk' = OpenForWriting(disk)
    /\ ret' = [op |-> "start", outcome |-> "ok"]
    /\ startCalled' = TRUE
    /\ UNCHANGED <<actions, stopCalled, dropped, recorded>>

\* The list after self.actions.append(action).
AppendAction(list, action) == Append(list, action)

\* The file after the write and flush of record_action, the handle given.
WriteLine(content, handle, action) ==
    IF handle # None /\ Utf8Encodable(action)
    THEN Append(content, JsonDumps(action))
    ELSE content

\* The exception raised inside the try block of record_action, if any.
RecordExc(handle, payload) ==
    LET parsed == JsonLoads(payload) IN
    IF parsed.exc # "none" THEN parsed.exc
    ELSE IF handle # None /\ ~Utf8Encodable(parsed.val) THEN "UnicodeEncodeError"
    ELSE SummaryLogExc(parsed.val)

record_action(payload) ==
    LET parsed == JsonLoads(payload)
        exc == RecordExc(file, payload)
    IN /\ Len(actions) < MaxActions
       /\ IF parsed.exc # "none"
          THEN /\ UNCHANGED <<actions, disk, recorded>>
               /\ dropped' = IF dropped < MaxDropped THEN dropped + 1 ELSE dropped
          ELSE /\ actions' = AppendAction(actions, parsed.val)
               /\ disk' = WriteLine(disk, file, parsed.val)
               /\ recorded' = recorded + 1
               /\ UNCHANGED dropped
       /\ ret' = [op |-> "record_action", outcome |-> Outcome(exc)]
       /\ UNCHANGED <<file, startCalled, stopCalled>>

stop ==
    /\ file' = None
    /\ ret' = [op |-> "stop", outcome |-> "ok"]
    /\ stopCalled' = TRUE
    /\ UNCHANGED <<actions, disk, startCalled, dropped, recorded>>

\* A value a dict or a set can hold as key or member.
Hashable(v) == v.k \notin {"list", "dict"}

\* A counter that is set instead of incremented.
CountTypeNoIncrement(action_types, t) ==
    IF t \in DOMAIN action_types THEN action_types ELSE action_types @@ (t :> 1)

\* action_types[action_type] = action_types.get(action_type, 0) + 1
CountType(action_types, t) ==
    IF t \in DOMAIN action_types
    THEN [action_types EXCEPT ![t] = @ + 1]
    ELSE action_types @@ (t :> 1)

\* urls_visited.add(url)
AddUrl(urls_visited, url) == urls_visited \cup {url}

\* list(urls_visited): the members of the set, each once, in some order.
ListOfSet(S) ==
    CHOOSE q \in [1..Cardinality(S) -> S] : {q[i] : i \in DOMAIN q} = S

\* The loop of get_summary from entry i on: the exception it raises, or the
\* two accumulators at its end.
RECURSIVE SummaryLoop(_, _, _, _)
SummaryLoop(list, i, action_types, urls_visited) ==
    IF i > Len(list)
    THEN [exc |-> "none", action_types |-> action_types, urls_visited |-> urls_visited]
    ELSE LET action == list[i]
             action_type == Get(action, "type", Str("unknown"))
             url == Get(action, "url", Str(""))
         IN IF action.k # "dict"
            THEN [exc |-> "AttributeError", action_types |-> action_types,
                  urls_visited |-> urls_visited]
            ELSE IF ~Hashable(action_type) \/ ~Hashable(url)
            THEN [exc |-> "TypeError", action_types |-> action_types,
                  urls_visited |-> urls_visited]
            ELSE SummaryLoop(list, i + 1, CountType(action_types, action_type.s),
                             AddUrl(urls_visited, url.s))

\* What get_summary() returns for the list, or the exception it raises.
Summary(list) ==
    LET loop == SummaryLoop(list, 1, <<>>, {}) IN
    [exc |-> loop.exc,
     total_actions |-> Len(list),
     action_types |-> loop.action_types,
     urls_visited |-> ListOfSet(loop.urls_visited)]

get_summary ==
    LET summary == Summary(actions) IN
    /\ ret' = [op |-> "get_summary",
               outcome |-> IF summary.exc = "none" THEN "ok" ELSE "raised",
               val |-> summary]
    /\ UNCHANGED <<actions, file, disk, startCalled, stopCalled, dropped, recorded>>

\* --------------------------------------------------------- RECORDER_SCRIPT
\* The fields of the page: tag, type and autocomplete of each.
ElTag == <<"input", "input">>
ElType == <<"text", "password">>
ElAutocomplete == <<"", "">>
ElId == <<"username", "pw">>
El == DOMAIN ElTag

\* The values a field takes; LongValue is 99 characters and an emoji, whose
\* surrogate pair the 100-unit cut splits.
LongValue == "x99<U+D83D><U+DE00>"
Values == {"a", LongValue}
Keys == {"Enter", "Escape", "a"}
\* window.location.href
Href == "https://x.test/a"

\* The delay of the input listener's setTimeout, in ms.
DebounceMs == 300

\* String.prototype.substring(0, 100) of a field value.
Substring100(v) == IF v = LongValue THEN LoneSurrogate ELSE v

SENSITIVE_TYPES == {"password"}
SENSITIVE_AUTOCOMPLETE == {"password", "current-password", "new-password"}

\* s.includes(t), for the autocomplete values of the fields.
Includes(s, t) ==
    \/ s = t
    \/ t = "password" /\ s \in {"current-password", "new-password"}

isSensitiveInput(el) ==
    \/ ElType[el] \in SENSITIVE_TYPES
    \/ \E t \in SENSITIVE_AUTOCOMPLETE : Includes(ElAutocomplete[el], t)

getElementInfo(el) == ElementInfo(ElTag[el], ElId[el], ElType[el])

\* JSON.stringify(event): JSON text that denotes the event (a lone surrogate
\* is written as an escape, so the text is always well-formed).
JsonStringify(event) == Json(event)

\* window.__recordAction(text): the call joins those in flight; the history
\* fields say which user event it records and the rank of the sendEvent call.
Post(calls, call) == Append(calls, call)

\* sendEvent(type, el, extra) for the user event of rank occ.
sendEvent(type, el, extra, occ) ==
    LET event == Dict("ts" :> Str(ToString(now)) @@ "type" :> Str(type)
                      @@ "url" :> Str(Href) @@ "element" :> getElementInfo(el)
                      @@ extra)
    IN /\ channel' = Post(channel, [payload |-> JsonStringify(event),
                                    type |-> type, occ |-> occ, sent |-> sent + 1])
       /\ sent' = sent + 1

PageInit ==
    /\ value = [el \in El |-> ""]
    /\ inputTimeout = 0
    /\ timers = {}
    /\ timerIds = 0
    /\ channel = <<>>
    /\ now = 0
    /\ occurred = 0
    /\ sent = 0
    /\ bursts = 0
    /\ flushes = 0
    /\ lastInputAt = 0
    /\ actionLog = <<>>
    /\ diskLog = <<>>

ClickListener(el) ==
    /\ occurred < MaxEvents
    /\ occurred' = occurred + 1
    /\ sendEvent("click", el, NoMembers, occurred + 1)
    /\ UNCHANGED <<value, inputTimeout, timers, timerIds, now, bursts, flushes,
                   lastInputAt, actionLog, diskLog>>

\* A listener that leaves the previous callback pending.
ClearTimeoutForgotten(pending, id) == pending

\* clearTimeout(id): the pending callback of that id, if any, is removed.
ClearTimeout(pending, id) == {t \in pending : t.id # id}

\* setTimeout(callback, delay): the callback is pending until now + delay.
SetTimeout(pending, id, el, delay, occ) ==
    pending \cup {[id |-> id, el |-> el, due |-> now + delay, occ |-> occ]}

\* The user types into el, which makes its value v and dispatches "input".
InputListener(el, v) ==
    /\ occurred < MaxEvents
    /\ occurred' = occurred + 1
    /\ value' = [value EXCEPT ![el] = v]
    /\ timers' = SetTimeout(ClearTimeout(timers, inputTimeout), timerIds + 1, el,
                            DebounceMs, occurred + 1)
    /\ inputTimeout' = timerIds + 1
    /\ timerIds' = timerIds + 1
    /\ bursts' = IF timers = {} THEN bursts + 1 ELSE bursts
    /\ lastInputAt' = now
    /\ UNCHANGED <<channel, now, sent, flushes, actionLog, diskLog>>

\* The value the flush reports: el.value as it is when the callback runs.
FlushValue(el, values) ==
    IF isSensitiveInput(el) THEN "***" ELSE Substring100(values[el])

\* The callback of the input listener's setTimeout runs.
InputFlush(t) ==
    /\ t \in timers
    /\ now >= t.due
    /\ timers' = timers \ {t}
    /\ sendEvent("input", t.el,
                 "value" :> Str(FlushValue(t.el, value))
                 @@ "masked" :> Bool(isSensitiveInput(t.el)), t.occ)
    /\ flushes' = flushes + 1
    /\ UNCHANGED <<value, inputTimeout, timerIds, now, occurred, bursts,
                   lastInputAt, actionLog, diskLog>>

\* The value the change listener reports for a field (el.checked of a
\* checkbox or radio is kept in value: "" when it is not checked).
ChangeValue(el) ==
    IF ElType[el] \in {"checkbox", "radio"} THEN Bool(value[el] # "")
    ELSE IF ElTag[el] = "select" THEN Str(value[el])
    ELSE IF ~isSensitiveInput(el) THEN Str(Substring100(value[el]))
    ELSE Str("***")

ChangeListener(el) ==
    /\ occurred < MaxEvents
    /\ occurred' = occurred + 1
    /\ sendEvent("change", el,
                 "value" :> ChangeValue(el) @@ "masked" :> Bool(isSensitiveInput(el)),
                 occurred + 1)
    /\ UNCHANGED <<value, inputTimeout, timers, timerIds, now, bursts, flushes,
                   lastInputAt, actionLog, diskLog>>

SubmitListener(el) ==
    /\ occurred < MaxEvents
    /\ occurred' = occurred + 1
    /\ sendEvent("submit", el, NoMembers, occurred + 1)
    /\ UNCHANGED <<value, inputTimeout, timers, timerIds, now, bursts, flushes,
                   lastInputAt, actionLog, diskLog>>

KeydownListener(el, key) ==
    /\ occurred < MaxEvents
    /\ occurred' = occurred + 1
    /\ IF key = "Enter" \/ key = "Escape"
       THEN sendEvent("keydown", el, "key" :> Str(key), occurred + 1)
       ELSE UNCHANGED <<channel, sent>>
    /\ UNCHANGED <<value, inputTimeout, timers, timerIds, now, bursts, flushes,
                   lastInputAt, actionLog, diskLog>>

\* The binding call at the head of those in flight reaches the host:
\* lambda source, action_json: recorder.record_action(action_json).
Deliver ==
    /\ channel # <<>>
    /\ record_action(Head(channel).payload)
    /\ channel' = Tail(channel)
    /\ actionLog' = IF Len(actions') > Len(actions)
                    THEN Append(actionLog, Head(channel)) ELSE actionLog
    /\ diskLog' = IF Len(disk') > Len(disk)
                  THEN Append(diskLog, Head(channel)) ELSE diskLog
    /\ UNCHANGED <<value, inputTimeout, timers, timerIds, now, occurred, sent,
                   bursts, flushes, lastInputAt>>

\* Time passes.
Tick ==
    /\ now < MaxTime
    /\ now' = now + TickMs
    /\ UNCHANGED <<pageVars, sessionHistory>>

\* ------------------------------------------------- page identity tracker
\* A raw URL as page.url gives it, cut at its delimiters:
\* scheme "://" netloc path [";" params] ["?" query] ["#" fragment].
UrlA == <<"https", "://", "x.test", "/a">>
RawUrls ==
    {UrlA,
     UrlA \o <<"?", "x=1">>,
     UrlA \o <<"?", "x=2">>,
     UrlA \o <<"#", "top">>,
     UrlA \o <<"#", "top", "?", "x=1">>,
     <<"https", "://", "x.test", "/b">>,
     <<"https", "://", "x.test", "/b", ";", "v=1", "?", "x=1">>}
Titles == {"Home", "Login"}

\* The first position of tok in q, 0 when it is absent.
Find(q, tok) ==
    IF \E i \in DOMAIN q : q[i] = tok
    THEN CHOOSE i \in DOMAIN q : q[i] = tok /\ \A j \in 1..(i - 1) : q[j] # tok
    ELSE 0
Before(q, i) == IF i = 0 THEN q ELSE SubSeq(q, 1, i - 1)
After(q, i) == IF i = 0 THEN <<>> ELSE SubSeq(q, i + 1, Len(q))

\* urllib.parse.urlparse: the fragment is cut at the first "#", the query at
\* the first "?" before it, the params at the first ";" of the path.
urlparse(raw_url) ==
    LET rest == SubSeq(raw_url, 4, Len(raw_url))
        noFragment == Before(rest, Find(rest, "#"))
        noQuery == Before(noFragment, Find(noFragment, "?"))
    IN [scheme |-> raw_url[1],
        netloc |-> raw_url[3],
        path |-> Before(noQuery, Find(noQuery, ";")),
        params |-> After(noQuery, Find(noQuery, ";")),
        query |-> After(noFragment, Find(noFragment, "?")),
        fragment |-> After(rest, Find(rest, "#"))]

\* urllib.parse.urlunparse: an empty component is left out with its delimiter.
urlunparse(parts) ==
    <<parts.scheme, "://", parts.netloc>> \o parts.path
    \o (IF parts.params = <<>> THEN <<>> ELSE <<";">> \o parts.params)
    \o (IF parts.query = <<>> THEN <<>> ELSE <<"?">> \o parts.query)
    \o (IF parts.fragment = <<>> THEN <<>> ELSE <<"#">> \o parts.fragment)

\* A normalization that forgets to blank the query.
normalize_url_keeps_query(raw_url) ==
    LET parsed == urlparse(raw_url) IN
    urlunparse([scheme |-> parsed.scheme, netloc |-> parsed.netloc,
                path |-> parsed.path, params |-> <<>>, query |-> parsed.query,
                fragment |-> <<>>])

normalize_url(raw_url) ==
    LET parsed == urlparse(raw_url) IN
    urlunparse([scheme |-> parsed.scheme, netloc |-> parsed.netloc,
                path |-> parsed.path, params |-> <<>>, query |-> <<>>,
                fragment |-> <<>>])

TrackerInit ==
    /\ pages_visited = <<>>
    /\ next_page_id = 1
    /\ visits = <<>>

\* A membership test that never finds the key.
VisitedNever(normalized) == FALSE

\* normalized in pages_visited
Visited(normalized) == \E i \in DOMAIN pages_visited : pages_visited[i].key = normalized
\* pages_visited[normalized]
Entry(normalized) ==
    pages_visited[CHOOSE i \in DOMAIN pages_visited : pages_visited[i].key = normalized]

\* A counter that is not advanced.
IncrementForgotten(id) == id

\* next_page_id += 1
Increment(id) == id + 1

\* One call of get_or_create_page_id; the history keeps (page_id, is_new).
get_or_create_page_id(raw_url, title) ==
    LET normalized == normalize_url(raw_url) IN
    /\ Len(visits) < MaxVisits
    /\ IF Visited(normalized)
       THEN /\ visits' = Append(visits, [raw_url |-> raw_url,
                                         pageId |-> Entry(normalized).pageId,
                                         is_new |-> FALSE])
            /\ UNCHANGED <<pages_visited, next_page_id>>
       ELSE /\ next_page_id' = Increment(next_page_id)
            /\ pages_visited' = Append(pages_visited,
                                       [key |-> normalized, pageId |-> next_page_id,
                                        url |-> raw_url, title |-> title,
                                        first_visit |-> now])
            /\ visits' = Append(visits, [raw_url |-> raw_url, pageId |-> next_page_id,
                                         is_new |-> TRUE])

\* ------------------------------------------------ main, run_interact
Modes == {"snapshot", "interact"}

\* The URLs the live page shows during a run.
LiveUrls == {UrlA, UrlA \o <<"?", "x=1">>, <<"https", "://", "x.test", "/b">>}

\* A run consults the tracker once after goto, once per navigation it
\* detects and once for the final capture.
MaxNavigations == MaxVisits - 2

\* extraction = {"page_signals": {}, "elements": []}
EmptyExtraction == [page_signals |-> <<>>, elements |-> <<>>]
\* What extract_elements returns for a page with one button.
PageExtraction == [page_signals |-> <<"has_aria_roles">>, elements |-> <<"button">>]

\* The state of main before a run, and in the specifications that make none.
RunInit ==
    /\ pc = "main"
    /\ mode = "interact"
    /\ interrupted = FALSE
    /\ current_url = <<>>
    /\ pagesOpen = FALSE
    /\ liveUrl = <<>>
    /\ navigations = 0
    /\ error = <<>>
    /\ extraction = EmptyExtraction
    /\ result = <<>>
    /\ food = <<>>
    /\ meta = <<>>
    /\ exit = <<>>
    /\ shots = <<>>
    /\ html = <<>>

\* Whether the exception leaves the function that let it pass: here the
\* process ends with a traceback and exit status 1.
Propagate ==
    /\ pc' = "exited"
    /\ exit' = <<1>>

\* main up to the call of the selected mode; run_interact creates and starts
\* the recorder before anything else.
RunMode ==
    /\ pc = "main"
    /\ pc' = "create_browser"
    /\ IF mode = "interact"
       THEN start
       ELSE UNCHANGED recorderVars
    /\ UNCHANGED <<mode, interrupted, current_url, browserVars, captureVars,
                   outputVars, sessionVars, extractVars, retryVars, trackerVars>>

\* create_browser_context, called outside the try block of run_snapshot and
\* of run_interact; then the SIGINT handler is registered.
CreateBrowser(raised) ==
    /\ pc = "create_browser"
    /\ IF raised
       THEN /\ Propagate
            /\ UNCHANGED pagesOpen
       ELSE /\ pc' = IF mode = "interact" THEN "setup_recorder" ELSE "snapshot"
            /\ pagesOpen' = TRUE
            /\ UNCHANGED exit
    /\ UNCHANGED <<mode, interrupted, current_url, liveUrl, navigations,
                   captureVars, error, extraction, result, food, meta,
                   recorderVars, sessionVars, extractVars, retryVars, trackerVars>>

\* The body of run_snapshot: its try block, handler and finally clause.
SnapshotFood == [k \in {"schema_version", "url", "run_id", "timestamp",
                        "page_signals", "elements"} |-> "-"]
RunSnapshot(raised) ==
    /\ pc = "snapshot"
    /\ pc' = "meta"
    /\ pagesOpen' = FALSE
    /\ IF raised
       THEN /\ result' = <<("success" :> FALSE @@ "error" :> "snapshot failed")>>
            /\ UNCHANGED food
       ELSE /\ result' = <<("success" :> TRUE @@ "elements_count" :> 1)>>
            /\ food' = Append(food, SnapshotFood)
    /\ UNCHANGED <<mode, interrupted, current_url, liveUrl, navigations,
                   captureVars, error, extraction, meta, exit,
                   recorderVars, sessionVars, extractVars, retryVars, trackerVars>>

\* setup_recorder(context, page, recorder), the first statement of the try.
SetupRecorder(raised) ==
    /\ pc = "setup_recorder"
    /\ IF raised
       THEN pc' = "except" /\ error' = <<"setup_recorder failed">>
       ELSE pc' = "goto" /\ UNCHANGED error
    /\ UNCHANGED <<mode, interrupted, current_url, browserVars, captureVars,
                   extraction, result, food, meta, exit,
                   recorderVars, sessionVars, extractVars, retryVars, trackerVars>>

\* page.goto(url) and page.title(): the page shows the URL given to the run,
\* also when one of the two calls raises after the load.
Goto(raised) ==
    /\ pc = "goto"
    /\ IF raised
       THEN pc' = "except" /\ error' = <<"goto failed">>
       ELSE pc' = "first_visit" /\ UNCHANGED error
    /\ liveUrl' = UrlA
    /\ UNCHANGED <<mode, interrupted, current_url, pagesOpen, navigations,
                   captureVars, extraction, result, food, meta, exit,
                   recorderVars, sessionVars, extractVars, retryVars, trackerVars>>

\* A capture that writes the HTML file whatever is_new says.
WritesHtmlAlways(is_new) == TRUE

\* if is_new:
WritesHtml(is_new) == is_new

\* capture_page_snapshot(page_obj, page_id, is_new) for the visit of that
\* rank: the screenshot is attempted, page_<page_id>.html is written when
\* is_new and page_obj.content() returns; both failures are logged only.
capture_page_snapshot(page_id, is_new, visit, content_ok) ==
    /\ shots' = Append(shots, [pageId |-> page_id, visit |-> visit])
    /\ html' = IF WritesHtml(is_new) /\ content_ok
               THEN Append(html, [pageId |-> page_id, visit |-> visit])
               ELSE html

\* page_id, is_new = get_or_create_page_id(url, title), then
\* capture_page_snapshot(page, page_id, is_new).
TrackAndCapture(raw_url, title, content_ok) ==
    /\ get_or_create_page_id(raw_url, title)
    /\ LET visit == visits'[Len(visits')] IN
       capture_page_snapshot(visit.pageId, visit.is_new, Len(visits'), content_ok)

\* page.title(): the title of the page the URL shows.
PageTitle(raw_url) == IF urlparse(raw_url).path = <<"/a">> THEN "Home" ELSE "Login"

\* The initial page is registered and captured.
FirstVisit(content_ok) ==
    /\ pc = "first_visit"
    /\ pc' = "loop"
    /\ current_url' = liveUrl
    /\ TrackAndCapture(liveUrl, PageTitle(liveUrl), content_ok /\ pagesOpen)
    /\ UNCHANGED <<mode, interrupted, browserVars, outputVars,
                   recorderVars, sessionVars, extractVars, retryVars>>

\* A loop that does not look at the flag.
LoopConditionIgnoresFlag(flag) == TRUE

\* while not interrupted:
LoopCondition(flag) == ~flag

LoopTop ==
    /\ pc = "loop"
    /\ pc' = IF LoopCondition(interrupted) THEN "poll_pages" ELSE "final_capture"
    /\ UNCHANGED <<mode, interrupted, current_url, browserVars, captureVars,
                   outputVars, recorderVars, sessionVars, extractVars, retryVars, trackerVars>>

\* if not context.pages: break
PollPages ==
    /\ pc = "poll_pages"
    /\ pc' = IF ~pagesOpen THEN "final_capture" ELSE "poll_evaluate"
    /\ UNCHANGED <<mode, interrupted, current_url, browserVars, captureVars,
                   outputVars, recorderVars, sessionVars, extractVars, retryVars, trackerVars>>

\* current_page.evaluate("1")
PollEvaluate(raised) ==
    /\ pc = "poll_evaluate"
    /\ ~pagesOpen => raised
    /\ pc' = IF raised THEN "poll_except" ELSE "poll_url"
    /\ UNCHANGED <<mode, interrupted, current_url, browserVars, captureVars,
                   outputVars, recorderVars, sessionVars, extractVars, retryVars, trackerVars>>

\* new_url = current_page.url; if new_url != current_url: current_url = new_url
PollUrl ==
    /\ pc = "poll_url"
    /\ IF liveUrl # current_url
       THEN pc' = "poll_navigation" /\ current_url' = liveUrl
       ELSE pc' = "poll_wait" /\ UNCHANGED current_url
    /\ UNCHANGED <<mode, interrupted, browserVars, captureVars,
                   outputVars, recorderVars, sessionVars, extractVars, retryVars, trackerVars>>

\* title = page.title(), then the page is registered and captured.
PollNavigation(raised, content_ok) ==
    /\ pc = "poll_navigation"
    /\ ~pagesOpen => raised
    /\ IF raised
       THEN /\ pc' = "poll_except"
            /\ UNCHANGED <<trackerVars, captureVars>>
       ELSE /\ pc' = "poll_wait"
            /\ TrackAndCapture(current_url, PageTitle(current_url), content_ok)
    /\ UNCHANGED <<mode, interrupted, current_url, browserVars,
                   outputVars, recorderVars, sessionVars, extractVars, retryVars>>

\* current_page.wait_for_timeout(500)
PollWait(raised) ==
    /\ pc = "poll_wait"
    /\ ~pagesOpen => raised
    /\ pc' = IF raised THEN "poll_except" ELSE "loop"
    /\ UNCHANGED <<mode, interrupted, current_url, browserVars, captureVars,
                   outputVars, recorderVars, sessionVars, extractVars, retryVars, trackerVars>>

\* The handler of the loop body: break when no page is left or the driver
\* raises again, continue otherwise.
PollExcept(raised) ==
    /\ pc = "poll_except"
    /\ pc' = IF raised \/ ~pagesOpen THEN "final_capture" ELSE "loop"
    /\ UNCHANGED <<mode, interrupted, current_url, browserVars, captureVars,
                   outputVars, recorderVars, sessionVars, extractVars, retryVars, trackerVars>>

\* The final capture, attempted when a page is still open.
FinalCapture(raised, content_ok) ==
    /\ pc = "final_capture"
    /\ pc' = "extract"
    /\ IF pagesOpen /\ ~raised
       THEN TrackAndCapture(liveUrl, PageTitle(liveUrl), content_ok)
       ELSE UNCHANGED <<trackerVars, captureVars>>
    /\ UNCHANGED <<mode, interrupted, current_url, browserVars,
                   outputVars, recorderVars, sessionVars, extractVars, retryVars>>

\* The elements of the last page, or the empty extraction.
ExtractLast(raised) ==
    /\ pc = "extract"
    /\ pc' = "finish"
    /\ extraction' = IF pagesOpen /\ ~raised THEN PageExtraction ELSE EmptyExtraction
    /\ UNCHANGED <<mode, interrupted, current_url, browserVars, captureVars,
                   error, result, food, meta, exit,
                   recorderVars, sessionVars, extractVars, retryVars, trackerVars>>

\* The dict get_summary() returns.
SummaryDict(summary) ==
    ("total_actions" :> summary.total_actions
     @@ "action_types" :> summary.action_types
     @@ "urls_visited" :> summary.urls_visited)

\* [{"pageId": ..., "url": ..., "title": ..., "first_visit": ...} for info in
\*  pages_visited.values()]
PagesWithId(entries) ==
    [i \in DOMAIN entries |->
        [pageId |-> entries[i].pageId, url |-> entries[i].url,
         title |-> entries[i].title, first_visit |-> entries[i].first_visit]]

\* food_data of the normal path.
FoodData(summary) ==
    ("schema_version" :> "1.0" @@ "url" :> "-" @@ "run_id" :> "-"
     @@ "timestamp" :> "-" @@ "mode" :> "interact"
     @@ "pages_visited" :> PagesWithId(pages_visited)
     @@ "page_signals" :> extraction.page_signals
     @@ "elements" :> extraction.elements
     @@ "action_summary" :> (SummaryDict(summary)
                             @@ "total_pages" :> Len(pages_visited)))

\* food_data of the handler: what was captured before the error.
PartialFoodData(summary, e) ==
    ("schema_version" :> "1.0" @@ "url" :> "-" @@ "run_id" :> "-"
     @@ "timestamp" :> "-" @@ "mode" :> "interact"
     @@ "page_signals" :> <<>> @@ "elements" :> <<>>
     @@ "action_summary" :> SummaryDict(summary)
     @@ "error" :> e)

\* recorder.stop() then recorder.get_summary(): the recorder after both.
StopAndSummarize ==
    /\ file' = None
    /\ stopCalled' = TRUE
    /\ ret' = [op |-> "get_summary",
               outcome |-> IF Summary(actions).exc = "none" THEN "ok" ELSE "raised",
               val |-> Summary(actions)]
    /\ UNCHANGED <<actions, disk, startCalled, dropped, recorded>>

\* The end of the try block: the recorder is stopped, food.json is written
\* and the result returned; an exception of get_summary goes to the handler.
Finish ==
    LET summary == Summary(actions) IN
    /\ pc = "finish"
    /\ StopAndSummarize
    /\ IF summary.exc # "none"
       THEN /\ pc' = "except"
            /\ error' = <<summary.exc>>
            /\ UNCHANGED <<result, food>>
       ELSE /\ pc' = "finally"
            /\ food' = Append(food, FoodData(summary))
            /\ result' = <<("success" :> TRUE
                            @@ "elements_count" :> Len(extraction.elements)
                            @@ "actions_count" :> summary.total_actions
                            @@ "pages_count" :> Len(pages_visited)
                            @@ "action_types" :> summary.action_types
                            @@ "page_signals" :> extraction.page_signals)>>
            /\ UNCHANGED error
    /\ UNCHANGED <<mode, interrupted, current_url, browserVars, captureVars,
                   extraction, meta, exit, sessionVars, extractVars, retryVars, trackerVars>>

\* A handler that never saves what was captured.
WorthSavingNever(total_actions) == FALSE

\* if summary["total_actions"] > 0:
WorthSaving(total_actions) == total_actions > 0

\* The handler of run_interact: a partial food.json and a partial success
\* when actions were captured, a failure otherwise or when the save raises.
Except ==
    LET summary == Summary(actions) IN
    /\ pc = "except"
    /\ pc' = "finally"
    /\ StopAndSummarize
    /\ IF summary.exc = "none" /\ WorthSaving(summary.total_actions)
       THEN /\ food' = Append(food, PartialFoodData(summary, error[1]))
            /\ result' = <<("success" :> TRUE @@ "partial" :> TRUE
                            @@ "elements_count" :> 0
                            @@ "actions_count" :> summary.total_actions
                            @@ "action_types" :> summary.action_types
                            @@ "page_signals" :> <<>>
                            @@ "warning" :> error[1])>>
       ELSE /\ result' = <<("success" :> FALSE @@ "error" :> error[1])>>
            /\ UNCHANGED food
    /\ UNCHANGED <<mode, interrupted, current_url, browserVars, captureVars,
                   error, extraction, meta, exit, sessionVars, extractVars, retryVars, trackerVars>>

\* finally: the SIGINT handler is restored and the browser closed.
Finally ==
    /\ pc = "finally"
    /\ pc' = "meta"
    /\ pagesOpen' = FALSE
    /\ UNCHANGED <<mode, interrupted, current_url, liveUrl, navigations,
                   captureVars, outputVars, recorderVars, sessionVars, extractVars, retryVars, trackerVars>>

\* main after the run returned: meta.json, then the exit status.
WriteMeta ==
    /\ pc = "meta"
    /\ pc' = "exited"
    /\ meta' = Append(meta, [mode |-> mode, result |-> result[1]])
    /\ exit' = <<IF result[1]["success"] THEN 0 ELSE 1>>
    /\ UNCHANGED <<mode, interrupted, current_url, browserVars, captureVars,
                   error, extraction, result, food,
                   recorderVars, sessionVars, extractVars, retryVars, trackerVars>>

\* The statements of run_interact between which SIGINT calls handle_interrupt.
HandlerInstalled ==
    {"setup_recorder", "goto", "first_visit", "loop", "poll_pages",
     "poll_evaluate", "poll_url", "poll_navigation", "poll_wait", "poll_except",
     "final_capture", "extract", "finish", "except", "finally"}
\* The statements of one iteration of the poll loop.
Iteration ==
    {"poll_pages", "poll_evaluate", "poll_url", "poll_navigation", "poll_wait",
     "poll_except"}
\* The statements during which the page is loaded and the user acts on it.
PageLoaded ==
    {"first_visit", "loop", "final_capture", "extract"} \cup Iteration

\* Ctrl+C: the handler sets the flag and returns.
handle_interrupt ==
    /\ mode = "interact" /\ pc \in HandlerInstalled
    /\ interrupted' = TRUE
    /\ UNCHANGED <<pc, mode, current_url, browserVars, captureVars,
                   outputVars, recorderVars, sessionVars, extractVars, retryVars, trackerVars>>

\* The user closes the browser window.
CloseWindow ==
    /\ mode = "interact" /\ pc \in PageLoaded
    /\ pagesOpen
    /\ pagesOpen' = FALSE
    /\ UNCHANGED <<pc, mode, interrupted, current_url, liveUrl, navigations,
                   captureVars, outputVars, recorderVars, sessionVars, extractVars, retryVars, trackerVars>>

\* The user navigates: the live page shows another URL.
Navigate(url) ==
    /\ mode = "interact" /\ pc \in PageLoaded
    /\ pagesOpen
    /\ navigations < MaxNavigations
    /\ url # liveUrl
    /\ liveUrl' = url
    /\ navigations' = navigations + 1
    /\ UNCHANGED <<pc, mode, interrupted, current_url, pagesOpen,
                   captureVars, outputVars, recorderVars, sessionVars, extractVars, retryVars, trackerVars>>

\* The user clicks: the recorder script reports the event through the binding.
UserAction ==
    /\ mode = "interact" /\ pc \in PageLoaded \cup {"goto"}
    /\ pagesOpen
    /\ record_action(Json(ClickEvent))
    /\ UNCHANGED <<runVars, extractVars, retryVars, sessionVars, trackerVars>>

\* ------------------------------------- extract_elements, getCandidates
\* A DOM element as the two scripts read it: its tag, its attributes ("" is
\* an absent or empty attribute, which both scripts test with the same
\* truthiness), its trimmed textContent, the text of the label that
\* getLabelText finds for it, and its place in the tree.
ElementTags == {"input", "div"}
\* The tags a selector of interactiveSelectors matches by themselves.
InteractiveTags == {"a", "button", "input", "select", "textarea"}
InteractiveRoles ==
    {"button", "link", "checkbox", "radio", "switch", "tab", "menuitem"}
\* The elements whose DOM property name, or placeholder, reflects the attribute.
NamedTags == {"a", "button", "input", "select", "textarea", "form"}
PlaceholderTags == {"input", "textarea"}

\* A text of 60 characters, and what substring(0, n) makes of a text.
LongText == "text of 60 characters"
PreviewLength == 50
NameLength == 30
substring(text, n) ==
    CASE text = LongText /\ n >= 60 -> text
      [] text = LongText /\ n >= PreviewLength -> "text of 50 characters"
      [] text = LongText -> "text of 30 characters"
      [] text = "text of 50 characters" /\ n < PreviewLength -> "text of 30 characters"
      [] OTHER -> text

\* An ancestor of the element, or the element itself, as the path walks see
\* it: nth is its index among the siblings of its tag when there are several,
\* 0 when it is the only one.
Node(tag, id, nth) == [tag |-> tag, id |-> id, nth |-> nth]

\* The places of an element: the body itself, a child of the body, a child of
\* a label, the second input of a form that has an id, and an element four
\* levels below the body with no id on the way.
Places ==
    { [isBody |-> TRUE, nth |-> 0, ancestors |-> <<>>],
      [isBody |-> FALSE, nth |-> 0, ancestors |-> <<>>],
      [isBody |-> FALSE, nth |-> 0, ancestors |-> <<Node("label", "", 0)>>],
      [isBody |-> FALSE, nth |-> 2, ancestors |-> <<Node("form", "login", 0)>>],
      [isBody |-> FALSE, nth |-> 0,
       ancestors |-> <<Node("div", "", 0), Node("div", "", 2),
                       Node("section", "", 0)>>] }

Element(tag, place) ==
    [tag |-> tag, testid |-> "", testid2 |-> "", test |-> "", id |-> "",
     name |-> "", aria |-> "", role |-> "", text |-> "", label |-> "",
     placeholder |-> "", type |-> "", autocomplete |-> "", place |-> place]

\* Every combination of present and absent attributes, text, label and place.
\* A label text comes from a label[for] of the element's id or from a label
\* that encloses the element.
Elements ==
    { e \in [tag : ElementTags \cup {"body"}, testid : {"", "save"},
             testid2 : {"", "save2"}, test : {"", "save3"}, id : {"", "pw"},
             name : {"", "user"}, aria : {"", "Close"}, role : {"", "button"},
             text : {"", "Go", LongText}, label : {"", "Email"},
             placeholder : {"", "you@x.test"}, type : {""},
             autocomplete : {""}, place : Places] :
        /\ (e.tag = "body") = e.place.isBody
        /\ e.label # "" =>
              \/ e.id # ""
              \/ \E i \in 1..Len(e.place.ancestors) :
                    e.place.ancestors[i].tag = "label" }

\* el.getAttribute(attr) || ''
getAttribute(el, attr) ==
    CASE attr = "id" -> el.id
      [] attr = "name" -> el.name
      [] attr = "placeholder" -> el.placeholder
      [] attr = "type" -> el.type
      [] attr = "role" -> el.role
      [] attr = "aria-label" -> el.aria
      [] attr = "data-testid" -> el.testid
      [] attr = "data-test-id" -> el.testid2
      [] attr = "data-test" -> el.test
      [] attr = "autocomplete" -> el.autocomplete
      [] OTHER -> ""

\* The DOM properties el.name and el.placeholder.
NameProperty(el) == IF el.tag \in NamedTags THEN el.name ELSE ""
PlaceholderProperty(el) == IF el.tag \in PlaceholderTags THEN el.placeholder ELSE ""

\* document.querySelectorAll(interactiveSelectors.join(',')) matches el.
Matches(el) ==
    \/ el.tag \in InteractiveTags
    \/ el.role \in InteractiveRoles
    \/ el.testid # "" \/ el.testid2 # "" \/ el.test # ""

\* The nodes a path walk visits: the element, then its ancestors up to the
\* body, which ends the walk.
Chain(el) ==
    IF el.place.isBody THEN <<>>
    ELSE <<Node(el.tag, el.id, el.place.nth)>> \o el.place.ancestors

MaxDepth == 3

RECURSIVE Join(_, _)
Join(path, separator) ==
    IF path = <<>> THEN ""
    ELSE IF Len(path) = 1 THEN path[1]
    ELSE path[1] \o separator \o Join(Tail(path), separator)

\* The while loop of getCssPath, from the node at index i with the path so far.
RECURSIVE CssWalk(_, _, _)
CssWalk(chain, i, path) ==
    IF i > Len(chain) \/ i - 1 >= MaxDepth THEN path
    ELSE IF chain[i].id # "" THEN <<"#" \o chain[i].id>> \o path
    ELSE CssWalk(chain, i + 1,
             <<chain[i].tag \o (IF chain[i].nth > 0
                                THEN ":nth-child(" \o ToString(chain[i].nth) \o ")"
                                ELSE "")>> \o path)

getCssPath(el) == Join(CssWalk(Chain(el), 1, <<>>), " > ")

\* The while loop of getXPath; it returns at the first node that has an id.
RECURSIVE XPathWalk(_, _, _)
XPathWalk(chain, i, path) ==
    IF i > Len(chain) \/ i - 1 >= MaxDepth THEN "//" \o Join(path, "/")
    ELSE IF chain[i].id # ""
    THEN "//" \o chain[i].tag \o "[@id=\"" \o chain[i].id \o "\"]"
    ELSE XPathWalk(chain, i + 1,
             <<chain[i].tag \o (IF chain[i].nth > 0
                                THEN "[" \o ToString(chain[i].nth) \o "]"
                                ELSE "")>> \o path)

getXPath(el) == XPathWalk(Chain(el), 1, <<>>)

\* getLabelText(el), null being ""
getLabelText(el) == substring(el.label, PreviewLength)

CandidateUntagged(strategy, selector, notes) ==
    [strategy |-> "css", selector |-> selector, notes |-> notes]

Candidate(strategy, selector, notes) ==
    [strategy |-> strategy, selector |-> selector, notes |-> notes]

PushFrontIf(condition, candidates, c) ==
    IF condition THEN <<c>> \o candidates ELSE candidates

\* candidates.push(c) when the condition holds
PushIf(condition, candidates, c) ==
    IF condition THEN Append(candidates, c) ELSE candidates

ShortListLength == 5

\* if (cssPath && candidates.length < 5)
NeedsCssPathNever(cssPath, candidates) == FALSE

NeedsCssPath(cssPath, candidates) ==
    cssPath # "" /\ Len(candidates) < ShortListLength

NeedsXPathNever(candidates) == FALSE

NeedsXPathAlways(candidates) == TRUE

\* if (candidates.length === 0), of the extractor
NeedsXPath(candidates) == Len(candidates) = 0

\* if (candidates.length === 0), of the recorder script
RecorderFallback(candidates) == Len(candidates) = 0

\* The extractor's candidates of one element, in the order of the pushes.
ExtractorCandidates(el) ==
    LET tag == el.tag
        textContent == substring(el.text, PreviewLength)
        labelText == getLabelText(el)
        cssPath == getCssPath(el)
        c1 == PushIf(getAttribute(el, "data-testid") # "", <<>>,
                  Candidate("data-testid",
                      "[data-testid=\"" \o getAttribute(el, "data-testid") \o "\"]", ""))
        c2 == PushIf(getAttribute(el, "data-test-id") # "", c1,
                  Candidate("data-test-id",
                      "[data-test-id=\"" \o getAttribute(el, "data-test-id") \o "\"]", ""))
        c3 == PushIf(getAttribute(el, "data-test") # "", c2,
                  Candidate("data-test",
                      "[data-test=\"" \o getAttribute(el, "data-test") \o "\"]", ""))
        c4 == PushIf(getAttribute(el, "id") # "", c3,
                  Candidate("id", "#" \o getAttribute(el, "id"), ""))
        c5 == PushIf(getAttribute(el, "name") # "", c4,
                  Candidate("name",
                      tag \o "[name=\"" \o getAttribute(el, "name") \o "\"]", ""))
        c6 == PushIf(getAttribute(el, "aria-label") # "", c5,
                  Candidate("aria-label",
                      tag \o "[aria-label=\"" \o getAttribute(el, "aria-label") \o "\"]", ""))
        c7 == PushIf(getAttribute(el, "role") # "" /\ textContent # "", c6,
                  Candidate("role+name",
                      "getByRole('" \o getAttribute(el, "role") \o "', {name: '"
                          \o substring(textContent, NameLength) \o "'})",
                      "Playwright getByRole"))
        c8 == PushIf(labelText # "", c7,
                  Candidate("label-for",
                      "getByLabel('" \o substring(labelText, NameLength) \o "')",
                      "Playwright getByLabel"))
        c9 == PushIf(getAttribute(el, "placeholder") # "", c8,
                  Candidate("placeholder",
                      tag \o "[placeholder=\"" \o getAttribute(el, "placeholder") \o "\"]", ""))
        c10 == PushIf(NeedsCssPath(cssPath, c9), c9,
                  Candidate("css-path", cssPath, "Fallback - pode ser fragil"))
    IN  PushIf(NeedsXPath(c10), c10,
            Candidate("xpath", getXPath(el), "Ultimo recurso - muito fragil"))

TestIdVariantFirst(el) ==
    IF getAttribute(el, "data-test-id") # ""
    THEN getAttribute(el, "data-test-id")
    ELSE IF getAttribute(el, "data-testid") # ""
    THEN getAttribute(el, "data-testid")
    ELSE getAttribute(el, "data-test")

\* const testid = el.getAttribute('data-testid') ||
\*     el.getAttribute('data-test-id') || el.getAttribute('data-test')
TestId(el) ==
    IF getAttribute(el, "data-testid") # ""
    THEN getAttribute(el, "data-testid")
    ELSE IF getAttribute(el, "data-test-id") # ""
    THEN getAttribute(el, "data-test-id")
    ELSE getAttribute(el, "data-test")

\* getCandidates(el) of the recorder script.
getCandidates(el) ==
    LET tag == el.tag
        testid == TestId(el)
        text == substring(el.text, NameLength)
        c1 == PushIf(testid # "", <<>>,
                  Candidate("data-testid", "[data-testid=\"" \o testid \o "\"]", ""))
        c2 == PushIf(el.id # "", c1, Candidate("id", "#" \o el.id, ""))
        c3 == PushIf(NameProperty(el) # "", c2,
                  Candidate("name", tag \o "[name=\"" \o NameProperty(el) \o "\"]", ""))
        c4 == PushIf(getAttribute(el, "aria-label") # "", c3,
                  Candidate("aria-label",
                      tag \o "[aria-label=\"" \o getAttribute(el, "aria-label") \o "\"]", ""))
        c5 == PushIf(getAttribute(el, "role") # "" /\ text # "", c4,
                  Candidate("role+name",
                      "getByRole('" \o getAttribute(el, "role") \o "', {name: '"
                          \o text \o "'})",
                      "Playwright getByRole"))
        c6 == PushIf(PlaceholderProperty(el) # "", c5,
                  Candidate("placeholder",
                      tag \o "[placeholder=\"" \o PlaceholderProperty(el) \o "\"]", ""))
    IN  PushIf(RecorderFallback(c6), c6,
            Candidate("css-path", getCssPath(el), "Fallback"))

\* The attributes the extractor reports: those of its two lists that are set.
ReportedAttributes ==
    {"id", "name", "placeholder", "type", "role", "aria-label",
     "data-testid", "data-test-id", "data-test"}
Attrs(el) ==
    [attr \in {a \in ReportedAttributes : getAttribute(el, a) # ""} |->
        getAttribute(el, attr)]

\* toLowerCase() of the autocomplete values of the model, and
\* includes('password') of the result.
toLowerCase(s) ==
    CASE s = "New-Password" -> "new-password"
      [] s = "PASSWORD" -> "password"
      [] OTHER -> s
IncludesPassword(s) == s \in {"password", "current-password", "new-password"}

\* isSensitive of the extractor's script.
isSensitive(el) ==
    \/ getAttribute(el, "type") = "password"
    \/ IncludesPassword(toLowerCase(getAttribute(el, "autocomplete")))

\* The DOM property el.type: of an input the state of its type attribute, a
\* keyword matched case-insensitively, text when absent or unknown; of a
\* select select-one; other elements of the model have none.
InputTypes == {"text", "password", "email", "checkbox", "radio"}
TypeProperty(el) ==
    IF el.tag = "select" THEN "select-one"
    ELSE IF el.tag # "input" THEN ""
    ELSE IF toLowerCase(el.type) \in InputTypes THEN toLowerCase(el.type)
    ELSE "text"

\* The DOM property el.autocomplete, which form controls have.
AutocompleteProperty(el) ==
    IF el.tag \in {"input", "select", "textarea"} THEN el.autocomplete ELSE ""

\* isSensitiveInput(el) of the recorder script, on an element of the page.
isSensitiveInputOf(el) ==
    LET type == toLowerCase(TypeProperty(el))
        autocomplete == toLowerCase(AutocompleteProperty(el))
    IN  \/ type \in SENSITIVE_TYPES
        \/ \E t \in SENSITIVE_AUTOCOMPLETE : Includes(autocomplete, t)

\* null of JavaScript, which Python reads as None.
JsNull == "null"

\* The object the script pushes for one element.
ScriptElement(el) ==
    "tag" :> el.tag
    @@ "textPreview" :> (IF substring(el.text, PreviewLength) # ""
                         THEN substring(el.text, PreviewLength) ELSE JsNull)
    @@ "attrs" :> Attrs(el)
    @@ "isSensitive" :> isSensitive(el)
    @@ "candidates" :> ExtractorCandidates(el)

\* const key = el.tagName + '_' + (el.id || el.name || Math.random()): the
\* key of the element at index i; a random number equals no other key.
Key(doc, i) ==
    IF doc[i].id # "" THEN <<doc[i].tag, doc[i].id>>
    ELSE IF NameProperty(doc[i]) # "" THEN <<doc[i].tag, NameProperty(doc[i])>>
    ELSE <<doc[i].tag, "random", i>>

\* The elements the forEach does not skip, in document order.
Kept(doc) ==
    { i \in 1..Len(doc) :
        /\ Matches(doc[i])
        /\ \A j \in 1..(i - 1) : Matches(doc[j]) => Key(doc, j) # Key(doc, i) }

RECURSIVE Pushed(_, _)
Pushed(doc, i) ==
    IF i > Len(doc) THEN <<>>
    ELSE (IF i \in Kept(doc) THEN <<ScriptElement(doc[i])>> ELSE <<>>)
         \o Pushed(doc, i + 1)

\* What the script returns for a document; the pages of the model load no
\* framework.
Script(doc) ==
    [pageSignals |->
        "has_data_testid" :> (\E i \in 1..Len(doc) :
            doc[i].testid # "" \/ doc[i].testid2 # "" \/ doc[i].test # "")
        @@ "has_aria_roles" :> (\E i \in 1..Len(doc) : doc[i].role # "")
        @@ "likely_spa" :> FALSE,
     elements |-> Pushed(doc, 1)]

\* The exceptions page.evaluate raises: the script threw, the evaluation
\* timed out, the page was closed.
EvaluateErrors == {"Error", "TimeoutError", "TargetClosedError"}

CaughtTimeoutOnly(exc) == exc = "TimeoutError"

\* except Exception: the classes of playwright derive from Exception.
ExceptException(exc) == exc \in EvaluateErrors

MaskForgotten(el) == el

\* el["textPreview"] = "***"; the script's objects have no key "value".
Mask(el) ==
    [k \in DOMAIN el |->
        IF k \in {"textPreview", "value"} THEN "***" ELSE el[k]]

\* el.pop("isSensitive", None)
Pop(el) == [k \in DOMAIN el \ {"isSensitive"} |-> el[k]]

\* The body of the try block for one element of the result.
Processed(el, mask) ==
    Pop(IF mask /\ el["isSensitive"] THEN Mask(el) ELSE el)

\* extract_elements(page, mask_sensitive): what the call does, the evaluation
\* of the script returning its result or raising exc.
extract_elements(doc, mask, outcome) ==
    IF outcome = "returns"
    THEN LET evaluated == Script(doc)
         IN  [outcome |-> "returned",
              value |-> [page_signals |-> evaluated.pageSignals,
                         elements |-> [i \in 1..Len(evaluated.elements) |->
                                          Processed(evaluated.elements[i], mask)]]]
    ELSE IF ExceptException(outcome)
    THEN [outcome |-> "returned", value |-> EmptyExtraction]
    ELSE [outcome |-> "raised", value |-> outcome]

\* No extraction is under way: the state of the specifications that make none.
ExtractIdle ==
    /\ dom = <<>>
    /\ mask_sensitive = TRUE
    /\ evaluation = "returns"
    /\ extracted = <<>>
    /\ resolved = <<>>
    /\ masked = <<>>
    /\ reported = <<>>

\* One call of extract_elements on the page.
Extract ==
    /\ extracted = <<>>
    /\ extracted' = <<extract_elements(dom, mask_sensitive, evaluation)>>
    /\ UNCHANGED <<dom, mask_sensitive, evaluation, resolved, masked, reported>>

\* The recorder script resolves the first element of the page: a listener got
\* it as the target of an event and getElementInfo calls getCandidates.
Resolve ==
    /\ resolved = <<>>
    /\ Len(dom) > 0
    /\ resolved' = <<getCandidates(dom[1])>>
    /\ UNCHANGED <<dom, mask_sensitive, evaluation, extracted, masked, reported>>

\* The DOM property el.value, v being what the user entered or chose;
\* el.checked of a checkbox or radio is v # "".
ValueProperty(el, v) == IF el.tag \in {"input", "select", "textarea"} THEN v ELSE ""

\* The callback of the input listener of the recorder script on the first
\* element of the page: value and masked of the event it sends.
Classify(v) ==
    /\ masked = <<>>
    /\ Len(dom) > 0
    /\ masked' = <<isSensitiveInputOf(dom[1])>>
    /\ reported' = <<IF isSensitiveInputOf(dom[1]) THEN Str("***")
                     ELSE Str(Substring100(ValueProperty(dom[1], v)))>>
    /\ UNCHANGED <<dom, mask_sensitive, evaluation, extracted, resolved>>

\* The value the change listener reports for an element of the page.
ChangeValueOf(el, v) ==
    IF TypeProperty(el) \in {"checkbox", "radio"} THEN Bool(ValueProperty(el, v) # "")
    ELSE IF el.tag = "select" THEN Str(ValueProperty(el, v))
    ELSE IF ~isSensitiveInputOf(el) THEN Str(Substring100(ValueProperty(el, v)))
    ELSE Str("***")

\* The change listener of the recorder script on the first element of the
\* page: value and masked of the event it sends.
Change(v) ==
    /\ masked = <<>>
    /\ Len(dom) > 0
    /\ masked' = <<isSensitiveInputOf(dom[1])>>
    /\ reported' = <<ChangeValueOf(dom[1], v)>>
    /\ UNCHANGED <<dom, mask_sensitive, evaluation, extracted, resolved>>

\* Documents of up to two elements for the extraction: a password field, a
\* field whose autocomplete names a password, a field with the id of the
\* first, a div made a button, a div made a button that has a name, a plain
\* div and a plain field.
Field == Element("input", [isBody |-> FALSE, nth |-> 0, ancestors |-> <<>>])
Division == Element("div", [isBody |-> FALSE, nth |-> 0, ancestors |-> <<>>])
Fixtures ==
    { [Field EXCEPT !.id = "pw", !.type = "password"],
      [Field EXCEPT !.name = "user", !.autocomplete = "New-Password"],
      [Field EXCEPT !.id = "pw", !.type = "text", !.placeholder = "you@x.test"],
      [Division EXCEPT !.role = "button", !.text = "Go"],
      [Division EXCEPT !.text = LongText, !.type = "password", !.testid = "save"],
      [Division EXCEPT !.role = "button", !.name = "go"],
      Division,
      Field }
MaxElements == 2
Documents ==
    UNION { [1..n -> Fixtures] : n \in 0..MaxElements }

\* ------------------------------------------- run_with_retry, BasePage.goto
\* An exception: its class and its message, a sequence of pieces chosen so
\* that a substring of retry_if_message_contains occurs in a message exactly
\* when it is one of its pieces, in some case.
Exc(class, message) == [class |-> class, message |-> message]

\* The URLs BasePage.goto is asked to open.
GotoUrls == { <<"https://x.test/", "a">>, <<"https://x.test/", "timeout">> }

PlaywrightTimeout ==
    Exc("PlaywrightTimeoutError", <<"Timeout", " 25000ms exceeded.">>)
ConnectionReset == Exc("PlaywrightError", <<"net::ERR_CONNECTION_RESET", " at ", "x">>)
BadValue == Exc("ValueError", <<"invalid literal">>)
Interrupt == Exc("KeyboardInterrupt", <<>>)
\* RuntimeError(f"HTTP {resp.status} opening {url}")
HttpError(status, url) ==
    Exc("RuntimeError", <<"HTTP ", ToString(status), " opening ">> \o url)
\* TimeoutError(f"Timeout waiting for {name} in {timeout_ms}ms") of _wait_bool
NotReady == Exc("TimeoutError", <<"Timeout", " waiting for ", "document.readyState">>)

\* The classes of the model and their base classes.
Bases(class) ==
    CASE class = "PlaywrightTimeoutError" ->
            {"PlaywrightTimeoutError", "PlaywrightError", "Exception", "BaseException"}
      [] class = "PlaywrightError" -> {"PlaywrightError", "Exception", "BaseException"}
      [] class = "KeyboardInterrupt" -> {"KeyboardInterrupt", "BaseException"}
      [] OTHER -> {class, "Exception", "BaseException"}

\* str.lower() of the pieces of the model.
lower(s) ==
    CASE s = "Timeout" -> "timeout"
      [] s = "net::ERR_ABORTED" -> "net::err_aborted"
      [] s = "net::ERR_CONNECTION_RESET" -> "net::err_connection_reset"
      [] s = "net::ERR_CONNECTION_CLOSED" -> "net::err_connection_closed"
      [] s = "net::ERR_NAME_NOT_RESOLVED" -> "net::err_name_not_resolved"
      [] s = "net::ERR_INTERNET_DISCONNECTED" -> "net::err_internet_disconnected"
      [] s = "Navigation failed" -> "navigation failed"
      [] s = "Target closed" -> "target closed"
      [] s = "Execution context was destroyed" -> "execution context was destroyed"
      [] s = "Protocol error" -> "protocol error"
      [] s = "HTTP " -> "http "
      [] OTHER -> s

\* RetryPolicy.retry_on and RetryPolicy.retry_if_message_contains
retry_on == {"PlaywrightTimeoutError", "PlaywrightError"}
retry_if_message_contains ==
    {"net::ERR_ABORTED", "net::ERR_CONNECTION_RESET", "net::ERR_CONNECTION_CLOSED",
     "net::ERR_NAME_NOT_RESOLVED", "net::ERR_INTERNET_DISCONNECTED",
     "Navigation failed", "Target closed", "Execution context was destroyed",
     "Protocol error", "Timeout", "has been closed", "page.goto"}

\* A bound of the model on RetryPolicy.attempts.
MaxAttempts == 3

\* A policy: its attempts and its retry_predicate, which is None, or answers
\* True or False for every exception, or raises.
RetryPolicy(attempts, retry_predicate) ==
    [attempts |-> attempts, retry_predicate |-> retry_predicate]
Policies ==
    { RetryPolicy(attempts, retry_predicate) :
        attempts \in 0..MaxAttempts,
        retry_predicate \in {"None", "True", "False", "raises"} }

\* BasePageConfig.nav_retry_policy
NavAttempts == 3
nav_retry_policy == RetryPolicy(NavAttempts, "None")

\* s.lower() in msg_l
InMessage(s, exc) ==
    \E i \in 1..Len(exc.message) : lower(exc.message[i]) = lower(s)

is_transient_error(exc, policy) ==
    IF policy.retry_predicate \in {"True", "False"}
    THEN policy.retry_predicate = "True"
    ELSE \/ \E s \in retry_if_message_contains : InMessage(s, exc)
         \/ Bases(exc.class) \cap retry_on # {}

ShouldRetryOnceMore(n, exc, policy) ==
    n <= policy.attempts /\ is_transient_error(exc, policy)

ShouldRetryWhatever(n, exc, policy) == n < policy.attempts

\* should_retry = (attempt < policy.attempts) and is_transient_error(exc, policy)
ShouldRetry(n, exc, policy) ==
    n < policy.attempts /\ is_transient_error(exc, policy)

\* What a call does: it returns a value or raises an exception.
NoExc == Exc("", <<>>)
Returns(v) == [outcome |-> "returned", value |-> v, exc |-> NoExc]
Raises(exc) == [outcome |-> "raised", value |-> 0, exc |-> exc]

\* The responses of page.goto: None, or a response with its status.
NoResponse == 0
Statuses == {NoResponse, 200, 404, 500, 503}
ServerError == 500

\* _do_goto() of BasePage.goto: page.goto returns a response or raises, then
\* ensure_page_ready returns or raises.
DoGoto(url, response, ready) ==
    IF response.outcome = "raised" THEN response
    ELSE IF response.value # NoResponse /\ response.value >= ServerError
    THEN Raises(HttpError(response.value, url))
    ELSE IF ~ready THEN Raises(NotReady)
    ELSE response

\* The calls of run_with_retry: of any fn with any policy and callbacks, and
\* the one BasePage.goto makes with its default policy.
RetryCalls ==
    [fn : {"fn"}, url : {<<>>}, policy : Policies,
     on_retry : BOOLEAN, on_fail : BOOLEAN]
    \cup [fn : {"_do_goto"}, url : GotoUrls, policy : {nav_retry_policy},
          on_retry : {FALSE}, on_fail : {TRUE}]

\* What one call of fn can do.
FnValue == 42
FnOutcomes(call) ==
    IF call.fn = "_do_goto"
    THEN { DoGoto(call.url, response, ready) :
             response \in { Returns(status) : status \in Statuses }
                          \cup {Raises(PlaywrightTimeout)},
             ready \in BOOLEAN }
    ELSE { Returns(FnValue) }
         \cup { Raises(exc) : exc \in {PlaywrightTimeout, ConnectionReset,
                                       BadValue, Interrupt} }

\* No call of run_with_retry is under way.
RetryIdle ==
    /\ retryCall = [fn |-> "fn", url |-> <<>>, policy |-> RetryPolicy(1, "None"),
                    on_retry |-> FALSE, on_fail |-> FALSE]
    /\ rpc = "idle"
    /\ attempt = 0
    /\ fnCalls = <<>>
    /\ onRetryCalls = <<>>
    /\ sleeps = <<>>
    /\ onFailCalls = <<>>
    /\ retryResult = <<>>

\* last_exc
last_exc == fnCalls[Len(fnCalls)].exc

\* if policy.attempts < 1: raise ValueError(...); otherwise the loop begins.
RetryEnter ==
    /\ rpc = "enter"
    /\ IF retryCall.policy.attempts < 1
       THEN /\ rpc' = "done"
            /\ retryResult' = <<Raises(Exc("ValueError", <<"RetryPolicy.attempts deve ser >= 1">>))>>
            /\ UNCHANGED attempt
       ELSE /\ rpc' = "try"
            /\ attempt' = 1
            /\ UNCHANGED retryResult
    /\ UNCHANGED <<retryCall, fnCalls, onRetryCalls, sleeps, onFailCalls>>

\* try: return fn(); except BaseException as exc: should_retry = ...
CallFn(outcome) ==
    /\ rpc = "try"
    /\ fnCalls' = Append(fnCalls, outcome)
    /\ IF outcome.outcome = "returned"
       THEN /\ retryResult' = <<outcome>>
            /\ rpc' = "done"
       ELSE /\ rpc' = IF ShouldRetry(attempt, outcome.exc, retryCall.policy)
                      THEN "retry" ELSE "fail"
            /\ UNCHANGED retryResult
    /\ UNCHANGED <<retryCall, attempt, onRetryCalls, sleeps, onFailCalls>>

\* if not should_retry: on_fail(exc), whose exceptions are swallowed; raise
Fail ==
    /\ rpc = "fail"
    /\ onFailCalls' = IF retryCall.on_fail THEN Append(onFailCalls, last_exc)
                      ELSE onFailCalls
    /\ retryResult' = <<Raises(last_exc)>>
    /\ rpc' = "done"
    /\ UNCHANGED <<retryCall, attempt, fnCalls, onRetryCalls, sleeps>>

\* log.warning, on_retry(attempt, exc), whose exceptions are swallowed,
\* _sleep_backoff(attempt, policy), and the next turn of the loop; after the
\* loop: raise last_exc.
Backoff ==
    /\ rpc = "retry"
    /\ onRetryCalls' = IF retryCall.on_retry
                       THEN Append(onRetryCalls, <<attempt, last_exc>>)
                       ELSE onRetryCalls
    /\ sleeps' = Append(sleeps, attempt)
    /\ IF attempt + 1 <= retryCall.policy.attempts
       THEN /\ attempt' = attempt + 1
            /\ rpc' = "try"
            /\ UNCHANGED retryResult
       ELSE /\ retryResult' = <<Raises(last_exc)>>
            /\ rpc' = "done"
            /\ UNCHANGED attempt
    /\ UNCHANGED <<retryCall, fnCalls, onFailCalls>>

vars ==
    <<recorderVars, sessionVars, trackerVars, runVars, extractVars, retryVars>>

\* The recorder's public methods, called in any order with any payload.
Init ==
    RecorderInit /\ PageInit /\ TrackerInit /\ RunInit /\ ExtractIdle /\ RetryIdle

Next ==
    \/ start /\ UNCHANGED <<sessionVars, trackerVars, runVars, extractVars, retryVars>>
    \/ \E payload \in Payloads :
          record_action(payload) /\ UNCHANGED <<sessionVars, trackerVars, runVars, extractVars, retryVars>>
    \/ stop /\ UNCHANGED <<sessionVars, trackerVars, runVars, extractVars, retryVars>>
    \/ get_summary /\ UNCHANGED <<sessionVars, trackerVars, runVars, extractVars, retryVars>>

Spec == Init /\ [][Next]_vars

\* One recording session of run_interact: the recorder is started, the script
\* is installed in the page, the user acts on the page, and the session ends
\* with one stop().
SessionInit ==
    /\ actions = <<>>
    /\ file = Open
    /\ disk = <<>>
    /\ ret = [op |-> "start", outcome |-> "ok"]
    /\ startCalled = TRUE
    /\ stopCalled = FALSE
    /\ dropped = 0
    /\ recorded = 0
    /\ PageInit
    /\ TrackerInit
    /\ RunInit
    /\ ExtractIdle /\ RetryIdle

SessionStop == ~stopCalled /\ stop

hostVars == <<recorderVars, trackerVars, runVars, extractVars, retryVars>>

SessionNext ==
    \/ \E el \in El : ClickListener(el) /\ UNCHANGED hostVars
    \/ \E el \in El, v \in Values : InputListener(el, v) /\ UNCHANGED hostVars
    \/ \E t \in timers : InputFlush(t) /\ UNCHANGED hostVars
    \/ \E el \in El : ChangeListener(el) /\ UNCHANGED hostVars
    \/ \E el \in El : SubmitListener(el) /\ UNCHANGED hostVars
    \/ \E el \in El, key \in Keys : KeydownListener(el, key) /\ UNCHANGED hostVars
    \/ Tick /\ UNCHANGED hostVars
    \/ Deliver /\ UNCHANGED <<trackerVars, runVars, extractVars, retryVars>>
    \/ SessionStop /\ UNCHANGED <<sessionVars, trackerVars, runVars, extractVars, retryVars>>

SpecSession == SessionInit /\ [][SessionNext]_vars

\* The tracker of one session: any sequence of visits, as time passes.
TrackerNext ==
    \/ /\ \E raw_url \in RawUrls, title \in Titles :
             get_or_create_page_id(raw_url, title)
       /\ UNCHANGED <<recorderVars, sessionVars, runVars, extractVars, retryVars>>
    \/ Tick /\ UNCHANGED <<recorderVars, trackerVars, runVars, extractVars, retryVars>>

SpecTracker == Init /\ [][TrackerNext]_vars

\* One run of main in either mode; in interact mode the user acts on the page
\* while run_interact polls it.
InteractInit ==
    /\ RecorderInit /\ PageInit /\ TrackerInit
    /\ pc = "main"
    /\ mode \in Modes
    /\ interrupted = FALSE
    /\ current_url = <<>>
    /\ pagesOpen = FALSE
    /\ liveUrl = <<>>
    /\ navigations = 0
    /\ error = <<>>
    /\ extraction = EmptyExtraction
    /\ result = <<>>
    /\ food = <<>>
    /\ meta = <<>>
    /\ exit = <<>>
    /\ shots = <<>>
    /\ html = <<>>
    /\ ExtractIdle /\ RetryIdle

\* The steps of the program.
RunStep ==
    \/ RunMode
    \/ \E raised \in BOOLEAN : CreateBrowser(raised)
    \/ \E raised \in BOOLEAN : RunSnapshot(raised)
    \/ \E raised \in BOOLEAN : SetupRecorder(raised)
    \/ \E raised \in BOOLEAN : Goto(raised)
    \/ \E content_ok \in BOOLEAN : FirstVisit(content_ok)
    \/ LoopTop
    \/ PollPages
    \/ \E raised \in BOOLEAN : PollEvaluate(raised)
    \/ PollUrl
    \/ \E raised \in BOOLEAN, content_ok \in BOOLEAN :
          PollNavigation(raised, content_ok)
    \/ \E raised \in BOOLEAN : PollWait(raised)
    \/ \E raised \in BOOLEAN : PollExcept(raised)
    \/ \E raised \in BOOLEAN, content_ok \in BOOLEAN :
          FinalCapture(raised, content_ok)
    \/ \E raised \in BOOLEAN : ExtractLast(raised)
    \/ Finish
    \/ Except
    \/ Finally
    \/ WriteMeta

\* The steps of the user.
UserStep ==
    \/ handle_interrupt
    \/ CloseWindow
    \/ \E url \in LiveUrls : Navigate(url)
    \/ UserAction

InteractNext == RunStep \/ UserStep

SpecInteract == InteractInit /\ [][InteractNext]_vars

\* The program is not suspended for ever: a statement that can run does run.
SpecInteractLive == SpecInteract /\ WF_pc(RunStep)

\* One extraction of a page, and the recorder script resolving its first
\* element: any document of the fixtures, either value of mask_sensitive, the
\* evaluation returning or raising.
ExtractInit ==
    /\ RecorderInit /\ PageInit /\ TrackerInit /\ RunInit /\ RetryIdle
    /\ dom \in Documents
    /\ mask_sensitive \in BOOLEAN
    /\ evaluation \in {"returns"} \cup EvaluateErrors
    /\ extracted = <<>>
    /\ resolved = <<>>
    /\ masked = <<>>
    /\ reported = <<>>

ExtractNext ==
    \/ Extract /\ UNCHANGED <<recorderVars, sessionVars, trackerVars, runVars, retryVars>>
    \/ Resolve /\ UNCHANGED <<recorderVars, sessionVars, trackerVars, runVars, retryVars>>

SpecExtract == ExtractInit /\ [][ExtractNext]_vars

\* The two scripts on one element, over every element of the model.
CandidatesInit ==
    /\ RecorderInit /\ PageInit /\ TrackerInit /\ RunInit /\ RetryIdle
    /\ dom \in { <<el>> : el \in Elements }
    /\ mask_sensitive = TRUE
    /\ evaluation = "returns"
    /\ extracted = <<>>
    /\ resolved = <<>>
    /\ masked = <<>>
    /\ reported = <<>>

SpecCandidates == CandidatesInit /\ [][ExtractNext]_vars

\* The fields of every combination of type and autocomplete values, with a
\* text or not, and the same attributes on a select and on a div.
TypeValues == {"", "text", "password", "PASSWORD", "checkbox"}
AutocompleteValues == {"", "off", "current-password", "New-Password"}
Fields ==
    { [[Field EXCEPT !.tag = tag, !.role = IF tag = "div" THEN "button" ELSE ""]
         EXCEPT !.type = type, !.autocomplete = autocomplete, !.text = text] :
        tag \in ElementTags \cup {"select"}, type \in TypeValues,
        autocomplete \in AutocompleteValues, text \in {"", "Go"} }

\* The extractor and the recorder script on one field.
ClassifyInit ==
    /\ RecorderInit /\ PageInit /\ TrackerInit /\ RunInit /\ RetryIdle
    /\ dom \in { <<el>> : el \in Fields }
    /\ mask_sensitive = TRUE
    /\ evaluation = "returns"
    /\ extracted = <<>>
    /\ resolved = <<>>
    /\ masked = <<>>
    /\ reported = <<>>

ClassifyNext ==
    \/ Extract /\ UNCHANGED <<recorderVars, sessionVars, trackerVars, runVars, retryVars>>
    \/ \E v \in Values \cup {""} :
          Classify(v) /\ UNCHANGED <<recorderVars, sessionVars, trackerVars, runVars, retryVars>>
    \/ \E v \in Values \cup {""} :
          Change(v) /\ UNCHANGED <<recorderVars, sessionVars, trackerVars, runVars, retryVars>>

SpecClassify == ClassifyInit /\ [][ClassifyNext]_vars

\* One call of run_with_retry, fn doing at each call any of the things it can.
RetryInit ==
    /\ RecorderInit /\ PageInit /\ TrackerInit /\ RunInit /\ ExtractIdle
    /\ retryCall \in RetryCalls
    /\ rpc = "enter"
    /\ attempt = 0
    /\ fnCalls = <<>>
    /\ onRetryCalls = <<>>
    /\ sleeps = <<>>
    /\ onFailCalls = <<>>
    /\ retryResult = <<>>

restVars == <<recorderVars, sessionVars, trackerVars, runVars, extractVars>>

RetryNext ==
    \/ RetryEnter /\ UNCHANGED restVars
    \/ \E outcome \in FnOutcomes(retryCall) : CallFn(outcome) /\ UNCHANGED restVars
    \/ Fail /\ UNCHANGED restVars
    \/ Backoff /\ UNCHANGED restVars

SpecRetry == RetryInit /\ [][RetryNext]_vars

\* -------------------------------------------------------------- properties
IsPrefix(a, b) == Len(a) <= Len(b) /\ SubSeq(b, 1, Len(a)) = a

Parses(payload) == JsonLoads(payload).exc = "none"
Parsed(payload) == JsonLoads(payload).val

\* C1: while the recorder is recording, every record_action call whose
\* payload parses to a JSON object appends exactly one entry to the action
\* list and writes exactly one line, the serialization of that entry, to the
\* sink (so the lines since start() are the actions since start(), in order).
C1_OneEntryOneLine ==
    [][\A payload \in Payloads :
          (file = Open /\ Parses(payload) /\ Parsed(payload).k = "dict"
           /\ record_action(payload))
          => /\ actions' = Append(actions, Parsed(payload))
             /\ disk' = Append(disk, JsonDumps(Parsed(payload)))]_vars

\* C2: stopped is terminal: once stop() has been called, no call of start(),
\* record_action(), stop() or get_summary() leaves the sink open.
C2_StoppedIsTerminal == [][stopCalled => file' = None]_vars

\* C3: every record_action call made after stop() leaves the content of
\* actions.ndjson unchanged.
C3_NoLineAfterStop ==
    [][\A payload \in Payloads :
          (stopCalled /\ record_action(payload)) => disk' = disk]_vars

\* C4: from the first start() on, every recorder operation leaves the content
\* written earlier as an unchanged prefix of actions.ndjson.
C4_AppendOnly == [][startCalled => IsPrefix(disk, disk')]_vars

\* C5: record_action returns without raising for every payload; a payload
\* that fails to parse leaves the action list, the sink and its handle
\* unchanged; and a payload that parses, delivered after a dropped one, is
\* still appended to the list and, the sink being open and the line
\* encodable, written to it.
C5_MalformedDropped ==
    [][\A payload \in Payloads :
          record_action(payload)
          => /\ ret'.outcome # "raised"
             /\ ~Parses(payload) => UNCHANGED <<actions, disk, file>>
             /\ (Parses(payload) /\ dropped > 0)
                => /\ actions' = Append(actions, Parsed(payload))
                   /\ file' = file
                   /\ (file = Open /\ Utf8Encodable(Parsed(payload)))
                      => disk' = Append(disk, JsonDumps(Parsed(payload)))]_vars

\* A well-formed event was recorded and written after a payload was dropped.
C5_Witness ==
    /\ dropped > 0
    /\ ret.op = "record_action" /\ ret.outcome = "logged"
    /\ file = Open
    /\ Len(disk) > 0 /\ ParseLine(disk[Len(disk)]) = actions[Len(actions)]

\* A Recorded Action Event: an object whose type and url are strings.
IsEvent(action) ==
    /\ Has(action, "type") /\ action.m["type"].k = "str"
    /\ Has(action, "url") /\ action.m["url"].k = "str"
AllEvents(list) == \A i \in DOMAIN list : IsEvent(list[i])

RECURSIVE SumOver(_, _)
SumOver(f, keys) ==
    IF keys = {} THEN 0
    ELSE LET key == CHOOSE x \in keys : TRUE IN f[key] + SumOver(f, keys \ {key})
SumValues(f) == SumOver(f, DOMAIN f)

NoDuplicates(q) == \A i, j \in DOMAIN q : q[i] = q[j] => i = j

\* C6: get_summary(), whenever it returns, reports total_actions == N and
\* action_types values that sum to N, N being the number of record_action
\* calls that recorded an action; and when the N entries are events it
\* returns, with each distinct url of the entries once in urls_visited.
C6_SummaryCounts ==
    ret.op = "get_summary"
    => /\ ret.outcome = "ok"
          => /\ ret.val.total_actions = recorded
             /\ SumValues(ret.val.action_types) = recorded
       /\ AllEvents(actions)
          => /\ ret.outcome = "ok"
             /\ NoDuplicates(ret.val.urls_visited)
             /\ {ret.val.urls_visited[i] : i \in DOMAIN ret.val.urls_visited}
                  = {actions[i].m["url"].s : i \in DOMAIN actions}

\* get_summary() after stop(), over three events of two types and two urls.
C6_Witness ==
    /\ ret.op = "get_summary" /\ ret.outcome = "ok"
    /\ stopCalled /\ file = None
    /\ recorded = 3 /\ AllEvents(actions)
    /\ Cardinality(DOMAIN ret.val.action_types) = 2
    /\ Len(ret.val.urls_visited) = 2

\* C7: every line of actions.ndjson parses back as a JSON value that
\* contains the keys ts, type and url.
C7_LinesHaveKeys ==
    \A i \in DOMAIN disk :
        LET v == ParseLine(disk[i]) IN Has(v, "ts") /\ Has(v, "type") /\ Has(v, "url")

Ordered(log, field) ==
    \A i, j \in DOMAIN log : i < j => log[i][field] < log[j][field]
Debounced(call) == call.type = "input"

\* C8: any two recorded user events, of any types, appear in the action list
\* and in actions.ndjson in the order in which they occurred in the page.
C8_OccurrenceOrder == Ordered(actionLog, "occ") /\ Ordered(diskLog, "occ")

\* What does hold of the order: the entries of the action list and the lines
\* of actions.ndjson are in the order in which the page script sent them; for
\* click, change, submit and keydown events that is the order of occurrence,
\* while an input action is sent when its debounce flush fires.
SendOrder ==
    /\ Len(actionLog) = Len(actions) /\ Len(diskLog) = Len(disk)
    /\ \A i \in DOMAIN actions : actions[i] = actionLog[i].payload.doc
    /\ \A i \in DOMAIN disk : ParseLine(disk[i]) = diskLog[i].payload.doc
    /\ Ordered(actionLog, "sent") /\ Ordered(diskLog, "sent")
    /\ \A i, j \in DOMAIN actionLog :
          (i < j /\ ~Debounced(actionLog[i]) /\ ~Debounced(actionLog[j]))
          => actionLog[i].occ < actionLog[j].occ
    /\ \A i, j \in DOMAIN diskLog :
          (i < j /\ ~Debounced(diskLog[i]) /\ ~Debounced(diskLog[j]))
          => diskLog[i].occ < diskLog[j].occ

CountInputs(log) == Cardinality({i \in DOMAIN log : log[i].type = "input"})

\* C9: at most one flush is pending at any time; an input event leaves its
\* own flush as the only one pending, cancelling the one it found; every
\* burst (inputs arriving while a flush is pending) is flushed once, not
\* before DebounceMs have passed since its last input event, and the flush
\* sends one input action that carries the field's value as it is then.
C9_Debounce ==
    /\ [](/\ Cardinality(timers) <= 1
          /\ flushes + Cardinality(timers) = bursts
          /\ CountInputs(actionLog) + CountInputs(channel) = flushes)
    /\ [][/\ \A el \in El, v \in Values :
                InputListener(el, v)
                => /\ Cardinality(timers') = 1
                   /\ \A t \in timers' : t.id = inputTimeout' /\ t.el = el
          /\ \A t \in timers :
                InputFlush(t)
                => /\ now >= lastInputAt + DebounceMs
                   /\ LET call == channel'[Len(channel')] IN
                      /\ call.type = "input"
                      /\ call.payload.doc.m["value"] = Str(FlushValue(t.el, value))]_vars

\* A burst of two input events 150 ms apart, flushed and recorded once.
C9_Witness ==
    /\ occurred = 2 /\ bursts = 1 /\ flushes = 1 /\ timers = {}
    /\ lastInputAt > 0
    /\ Len(actionLog) = 1 /\ actionLog[1].type = "input"
    /\ actionLog[1].payload.doc.m["value"] = Str("a")

\* The normalized URL as the specification words it: scheme, host and path.
SchemeHostPath(raw_url) ==
    LET parsed == urlparse(raw_url) IN <<parsed.scheme, parsed.netloc, parsed.path>>
SamePage(i, j) == SchemeHostPath(visits[i].raw_url) = SchemeHostPath(visits[j].raw_url)

\* C10: within one session all visits of the same normalized URL (scheme,
\* host and path; query and fragment stripped) get the same pageId, and
\* is_new is true on the first of them and on no other.
C10_SamePageSameId ==
    \A j \in DOMAIN visits :
        /\ \A i \in DOMAIN visits : SamePage(i, j) => visits[i].pageId = visits[j].pageId
        /\ visits[j].is_new <=> ~\E i \in 1..(j - 1) : SamePage(i, j)

\* /a?x=1, then /b, then /a?x=2: the third visit reuses the id of the first.
C10_Witness ==
    /\ Len(visits) = 3
    /\ visits[1].raw_url = UrlA \o <<"?", "x=1">> /\ visits[1].is_new
    /\ visits[2].raw_url[4] = "/b" /\ visits[2].is_new
    /\ visits[3].raw_url = UrlA \o <<"?", "x=2">> /\ ~visits[3].is_new
    /\ visits[1].pageId = visits[3].pageId /\ visits[2].pageId # visits[1].pageId

\* The distinct normalized URLs of the first n visits, in order of first sight.
RECURSIVE DistinctSeen(_)
DistinctSeen(n) ==
    IF n = 0 THEN <<>>
    ELSE LET before == DistinctSeen(n - 1)
             page == SchemeHostPath(visits[n].raw_url)
         IN IF \E k \in DOMAIN before : before[k] = page
            THEN before ELSE Append(before, page)

\* C11: page ids are allocated sequentially from 1 and never reused: over n
\* distinct normalized URLs the stored pageIds are exactly 1..n, each once,
\* the k-th distinct normalized URL seen has pageId k, and the next new one
\* receives n + 1.
C11_SequentialIds ==
    LET seen == DistinctSeen(Len(visits))
        n == Len(seen)
    IN /\ Len(pages_visited) = n
       /\ {pages_visited[i].pageId : i \in DOMAIN pages_visited} = 1..n
       /\ \A i, j \in DOMAIN pages_visited :
             pages_visited[i].pageId = pages_visited[j].pageId => i = j
       /\ \A k \in DOMAIN seen :
             \E i \in DOMAIN pages_visited :
                /\ SchemeHostPath(pages_visited[i].url) = seen[k]
                /\ pages_visited[i].pageId = k
       /\ next_page_id = n + 1
       /\ \A j \in DOMAIN visits :
             visits[j].is_new => visits[j].pageId = Len(DistinctSeen(j - 1)) + 1

\* /a?x=1 gets 1, /a?x=2 keeps 1 (query-only change), /b gets 2.
C11_Witness ==
    /\ Len(visits) = 3
    /\ visits[1].raw_url = UrlA \o <<"?", "x=1">> /\ visits[1].pageId = 1
    /\ visits[2].raw_url = UrlA \o <<"?", "x=2">> /\ visits[2].pageId = 1
    /\ visits[3].raw_url[4] = "/b" /\ visits[3].pageId = 2
    /\ next_page_id = 3

\* The page identity entry stored for the normalized URL of raw_url, if any.
Known(raw_url) ==
    \E i \in DOMAIN pages_visited :
        SchemeHostPath(pages_visited[i].url) = SchemeHostPath(raw_url)

\* C12: an entry is never deleted and never changed: every tracker call keeps
\* the entries it found, in place, and a revisit of a known normalized URL
\* leaves the whole map and the next-id counter unchanged.
C12_EntriesFrozen ==
    [][/\ IsPrefix(pages_visited, pages_visited')
       /\ (Len(visits') > Len(visits) /\ Known(visits'[Len(visits')].raw_url))
          => UNCHANGED <<pages_visited, next_page_id>>]_vars

\* /a is first seen as "Home" at /a?x=1 and revisited at /a#top: the entry
\* still holds the url of the first visit.
C12_Witness ==
    /\ Len(visits) = 2 /\ Len(pages_visited) = 1
    /\ visits[1].raw_url = UrlA \o <<"?", "x=1">>
    /\ visits[2].raw_url = UrlA \o <<"#", "top">> /\ ~visits[2].is_new
    /\ pages_visited[1].url = visits[1].raw_url
    /\ pages_visited[1].title = "Home"

\* C13: a screenshot capture is attempted on every visit for which the
\* tracker is consulted, new or repeat; page_<pageId>.html is written only on
\* a visit whose is_new is true, hence at most once per pageId and never by a
\* repeat visit.
C13_CapturePolicy ==
    /\ Len(shots) = Len(visits)
    /\ \A i \in DOMAIN shots :
          shots[i].visit = i /\ shots[i].pageId = visits[i].pageId
    /\ \A h \in DOMAIN html :
          /\ visits[html[h].visit].is_new
          /\ visits[html[h].visit].pageId = html[h].pageId
    /\ \A g, h \in DOMAIN html : html[g].pageId = html[h].pageId => g = h

\* Three visits of one page (after goto, on a query-only navigation, at the
\* end): three screenshots attempted, page_1.html written once.
C13_Witness ==
    /\ pc = "exited"
    /\ Len(visits) = 3 /\ \A i \in DOMAIN visits : visits[i].pageId = 1
    /\ visits[1].raw_url # visits[2].raw_url
    /\ Len(shots) = 3
    /\ html = <<[pageId |-> 1, visit |-> 1]>>

\* C14: once the interrupt flag is set the poll loop starts no new iteration;
\* the handler touches nothing but the flag, and an iteration in flight ends
\* at the loop top or at one of its own breaks; an iteration that finds no
\* open page leaves the loop; and after the loop the run goes on to stop the
\* recorder and to return its result.
C14_Cancellation ==
    /\ [][/\ interrupted => interrupted'
          /\ (pc' \in Iteration /\ pc \notin Iteration)
             => (pc = "loop" /\ ~interrupted)
          /\ interrupted' # interrupted
             => UNCHANGED <<pc, current_url, browserVars, captureVars, outputVars,
                            recorderVars, trackerVars>>
          /\ (pc \in Iteration /\ pc' \notin Iteration)
             => \/ pc' = "loop" /\ pc \in {"poll_wait", "poll_except"}
                \/ pc' = "final_capture" /\ pc = "poll_pages" /\ ~pagesOpen
                \/ pc' = "final_capture" /\ pc = "poll_except"
          /\ (pc = "poll_pages" /\ ~pagesOpen /\ pc' # pc)
             => pc' = "final_capture"]_vars
    /\ (pc \in Iteration) ~> (pc \in {"loop", "final_capture"})
    /\ (pc = "final_capture") ~> (stopCalled /\ file = None /\ Len(result) = 1)

\* Ctrl+C arrived while an iteration was in flight; the run captured the
\* last page, stopped the recorder and returned.
C14_Witness ==
    /\ interrupted /\ pagesOpen
    /\ pc = "finally" /\ stopCalled /\ Len(result) = 1
    /\ Len(visits) = 3 /\ visits[2].is_new

IsPartial(r) == "partial" \in DOMAIN r /\ r["partial"]

C16_MetaAlwaysWritten ==
    pc = "exited"
    => /\ Len(meta) = 1 /\ Len(result) = 1
       /\ meta[1].result = result[1]
       /\ exit[1] = 0 <=> result[1]["success"]

\* C17: every food.json an interact-mode run writes contains mode "interact",
\* pages_visited with one entry per page identity entry, and action_summary
\* with total_actions, action_types, urls_visited and total_pages, the number
\* of tracker entries.
C17_FoodShape ==
    mode = "interact"
    => \A i \in DOMAIN food :
          /\ {"mode", "pages_visited", "action_summary"} \subseteq DOMAIN food[i]
          /\ food[i]["mode"] = "interact"
          /\ Len(food[i]["pages_visited"]) = Len(pages_visited)
          /\ {"total_actions", "action_types", "urls_visited", "total_pages"}
                \subseteq DOMAIN food[i]["action_summary"]
          /\ food[i]["action_summary"]["total_pages"] = Len(pages_visited)

\* C18: an extraction whose page evaluation raises, whatever the exception,
\* returns exactly {"page_signals": {}, "elements": []} and raises nothing.
C18_EvaluationErrorsAbsorbed ==
    \A k \in 1..Len(extracted) :
        evaluation \in EvaluateErrors =>
            /\ extracted[k].outcome = "returned"
            /\ extracted[k].value = EmptyExtraction

\* The evaluation of a page of two elements raised because the page was
\* closed, and the extraction has returned.
C18_Witness ==
    /\ extracted # <<>>
    /\ evaluation = "TargetClosedError"
    /\ Len(dom) = MaxElements
    /\ \A i \in 1..Len(dom) : Matches(dom[i])

\* C19: with mask_sensitive every element the script classified sensitive has
\* textPreview "***" in the output and every other element has the fields the
\* script gave it; with or without it no element of the output has the key
\* isSensitive.
C19_Masking ==
    \A k \in 1..Len(extracted) :
        evaluation = "returns" =>
            LET raw == Script(dom).elements
                out == extracted[k].value.elements
            IN  /\ extracted[k].outcome = "returned"
                /\ Len(out) = Len(raw)
                /\ \A i \in 1..Len(out) :
                      /\ "isSensitive" \notin DOMAIN out[i]
                      /\ (mask_sensitive /\ raw[i]["isSensitive"])
                            => out[i]["textPreview"] = "***"
                      /\ (mask_sensitive /\ ~raw[i]["isSensitive"])
                            => \A key \in DOMAIN raw[i] \ {"isSensitive"} :
                                  /\ key \in DOMAIN out[i]
                                  /\ out[i][key] = raw[i][key]

\* A page with a sensitive element that has a text and an element that is not
\* sensitive has been extracted with mask_sensitive.
C19_Witness ==
    /\ extracted # <<>>
    /\ evaluation = "returns"
    /\ mask_sensitive
    /\ Len(dom) = 2
    /\ isSensitive(dom[1]) /\ dom[1].text # ""
    /\ ~isSensitive(dom[2])
    /\ Len(extracted[1].value.elements) = 2

\* C20: the candidates of every element the extractor processed, and of every
\* element the recorder script resolved, have at least one entry.
C20_CandidatesNeverEmpty ==
    /\ \A k \in 1..Len(extracted) :
          \A i \in 1..Len(extracted[k].value.elements) :
              Len(extracted[k].value.elements[i]["candidates"]) >= 1
    /\ \A k \in 1..Len(resolved) : Len(resolved[k]) >= 1

\* Both scripts have processed a body that has a role and nothing else: no
\* attribute gives a candidate and the css path is empty.
C20_Witness ==
    /\ extracted # <<>> /\ resolved # <<>>
    /\ dom[1].place.isBody
    /\ Len(extracted[1].value.elements) = 1
    /\ extracted[1].value.elements[1]["candidates"]
          = <<Candidate("xpath", "//", "Ultimo recurso - muito fragil")>>
    /\ resolved[1] = <<Candidate("css-path", "", "Fallback")>>

\* The candidate lists made for the element of the page: by the extractor for
\* each element of its output, and by the recorder script.
CandidateLists ==
    UNION { { extracted[k].value.elements[i]["candidates"] :
                i \in 1..Len(extracted[k].value.elements) } :
            k \in 1..Len(extracted) }
    \cup { resolved[k] : k \in 1..Len(resolved) }

\* C21: the first candidate of an element that has a data-testid has strategy
\* data-testid and selector [data-testid="<value>"], in the extractor's output
\* and in the recorder's, whatever other attributes the element has.
C21_TestIdFirst ==
    dom[1].testid # "" =>
        \A candidates \in CandidateLists :
            /\ Len(candidates) >= 1
            /\ candidates[1].strategy = "data-testid"
            /\ candidates[1].selector = "[data-testid=\"" \o dom[1].testid \o "\"]"

\* Both scripts have processed an element that has a data-testid and every
\* other attribute, the two variants of data-testid included.
C21_Witness ==
    /\ extracted # <<>> /\ resolved # <<>>
    /\ Len(extracted[1].value.elements) = 1
    /\ dom[1].testid # "" /\ dom[1].testid2 # "" /\ dom[1].test # ""
    /\ dom[1].id # "" /\ dom[1].name # "" /\ dom[1].aria # ""
    /\ dom[1].role # "" /\ dom[1].text # "" /\ dom[1].placeholder # ""

\* The tier of a strategy in the priority order, 0 for a strategy outside it.
Tier(strategy) ==
    CASE strategy \in {"data-testid", "data-test-id", "data-test"} -> 1
      [] strategy = "id" -> 2
      [] strategy = "name" -> 3
      [] strategy = "aria-label" -> 4
      [] strategy = "role+name" -> 5
      [] strategy = "label-for" -> 6
      [] strategy = "placeholder" -> 7
      [] strategy = "css-path" -> 8
      [] strategy = "xpath" -> 9
      [] OTHER -> 0

\* C22: in every candidate list the strategies follow the priority order: no
\* candidate of a lower tier precedes one of a higher tier and no strategy
\* occurs twice.
C22_PriorityOrder ==
    \A candidates \in CandidateLists :
        \A i \in 1..Len(candidates), j \in 1..Len(candidates) :
            i < j =>
                /\ Tier(candidates[i].strategy) >= 1
                /\ Tier(candidates[i].strategy) <= Tier(candidates[j].strategy)
                /\ candidates[i].strategy # candidates[j].strategy

\* The extractor has produced for one element candidates of at least five
\* tiers, and the recorder at least three candidates.
C22_Witness ==
    /\ extracted # <<>> /\ resolved # <<>>
    /\ Len(extracted[1].value.elements) = 1
    /\ Cardinality({ Tier(extracted[1].value.elements[1]["candidates"][i].strategy) :
          i \in 1..Len(extracted[1].value.elements[1]["candidates"]) }) >= 5
    /\ Len(resolved[1]) >= 3

\* No data-test*, id, name, aria-label, role or placeholder, and no id on an
\* ancestor within 3 levels.
Undistinguished(el) ==
    /\ el.testid = "" /\ el.testid2 = "" /\ el.test = ""
    /\ el.id = "" /\ el.name = "" /\ el.aria = ""
    /\ el.role = "" /\ el.placeholder = ""
    /\ \A i \in 1..Len(el.place.ancestors) :
          i <= 3 => el.place.ancestors[i].id = ""

\* C23: the candidates of an element with no distinguishing attribute and no
\* id on an ancestor within 3 levels are not empty and end with a css-path or
\* an xpath.
C23_StructuralFallbackLast ==
    Undistinguished(dom[1]) =>
        \A candidates \in CandidateLists :
            /\ Len(candidates) >= 1
            /\ candidates[Len(candidates)].strategy \in {"css-path", "xpath"}

\* Both scripts have processed a field inside a label that has a text and no
\* distinguishing attribute: the extractor's list has a label-for candidate
\* before the css-path.
C23_Witness ==
    /\ extracted # <<>> /\ resolved # <<>>
    /\ Undistinguished(dom[1])
    /\ Len(extracted[1].value.elements) = 1
    /\ Len(extracted[1].value.elements[1]["candidates"]) = 2
    /\ dom[1].text # ""

\* The strategies and selectors of a candidate list, in its order.
StrategiesAndSelectors(candidates) ==
    [i \in 1..Len(candidates) |->
        <<candidates[i].strategy, candidates[i].selector>>]

\* C24: for the same element the candidates the recorder script stores in an
\* action equal the candidates the extractor produces: same strategies, same
\* selectors, same order.
C24_SameCandidates ==
    \A k \in 1..Len(extracted), r \in 1..Len(resolved) :
        \A i \in 1..Len(extracted[k].value.elements) :
            StrategiesAndSelectors(resolved[r])
                = StrategiesAndSelectors(extracted[k].value.elements[i]["candidates"])

\* C25: fn is called at most policy.attempts times; no call follows a call
\* that returned, and its value is what run_with_retry returns; when every
\* attempt failed with a transient error, run_with_retry raises the error of
\* the last attempt after exactly one call of on_fail, with that error.
C25_BoundedAttempts ==
    /\ Len(fnCalls) <= retryCall.policy.attempts
    /\ \A i \in 1..Len(fnCalls) :
          fnCalls[i].outcome = "returned" =>
              /\ i = Len(fnCalls)
              /\ rpc = "done"
              /\ retryResult = <<Returns(fnCalls[i].value)>>
    /\ Len(onFailCalls) <= 1
    /\ (/\ rpc = "done"
        /\ Len(fnCalls) >= 1
        /\ Len(fnCalls) = retryCall.policy.attempts
        /\ \A i \in 1..Len(fnCalls) :
              /\ fnCalls[i].outcome = "raised"
              /\ is_transient_error(fnCalls[i].exc, retryCall.policy))
       => (/\ retryResult = <<Raises(fnCalls[Len(fnCalls)].exc)>>
           /\ (retryCall.on_fail
                 => onFailCalls = <<fnCalls[Len(fnCalls)].exc>>))

\* Three attempts have failed with transient errors, the last one different
\* from the first, and run_with_retry has raised with on_fail provided.
C25_Witness ==
    /\ rpc = "done"
    /\ retryCall.policy.attempts = 3
    /\ retryCall.on_fail
    /\ Len(fnCalls) = 3
    /\ \A i \in 1..Len(fnCalls) :
          /\ fnCalls[i].outcome = "raised"
          /\ is_transient_error(fnCalls[i].exc, retryCall.policy)
    /\ fnCalls[1].exc # fnCalls[3].exc
    /\ retryResult[1].outcome = "raised"

\* C26: a failure of fn with an error that is_transient_error classifies as
\* non-transient is the last call of fn, whatever its attempt number; it is
\* followed by no call of on_retry and no sleep for that attempt, and
\* run_with_retry ends by raising that error after one call of on_fail.
C26_NonTransientNotRetried ==
    \A i \in 1..Len(fnCalls) :
        (/\ fnCalls[i].outcome = "raised"
         /\ ~is_transient_error(fnCalls[i].exc, retryCall.policy))
        => (/\ i = Len(fnCalls)
            /\ \A j \in 1..Len(onRetryCalls) : onRetryCalls[j][1] # i
            /\ \A j \in 1..Len(sleeps) : sleeps[j] # i
            /\ rpc \in {"fail", "done"}
            /\ (rpc = "done" =>
                  (/\ retryResult = <<Raises(fnCalls[i].exc)>>
                   /\ (retryCall.on_fail => onFailCalls = <<fnCalls[i].exc>>)
                   /\ (~retryCall.on_fail => onFailCalls = <<>>))))

\* The second of three attempts has failed with an error that is not
\* transient, after a retry of the first, and run_with_retry has raised.
C26_Witness ==
    /\ rpc = "done"
    /\ retryCall.policy.attempts = 3
    /\ retryCall.on_fail /\ retryCall.on_retry
    /\ Len(fnCalls) = 2
    /\ fnCalls[2].outcome = "raised"
    /\ ~is_transient_error(fnCalls[2].exc, retryCall.policy)
    /\ Len(onRetryCalls) = 1

\* C27: when BasePage.goto with the default navigation policy ends with the
\* error of a response of status 500 or more, the navigation has been
\* attempted as many times as the policy allows.
C27_ServerErrorRetried ==
    (/\ retryCall.fn = "_do_goto"
     /\ retryCall.policy = nav_retry_policy
     /\ rpc = "done"
     /\ Len(retryResult) = 1
     /\ retryResult[1].outcome = "raised"
     /\ retryResult[1].exc.class = "RuntimeError")
    => Len(fnCalls) = retryCall.policy.attempts

\* C28: a poll tick that finds the live URL equal to the last known URL goes
\* on to its wait without consulting the tracker or capturing anything; a
\* tick that finds it different makes it the last known URL and then
\* consults the tracker exactly once.
C28_NavigationByUrlComparison ==
    [][/\ (pc = "poll_url" /\ pc' # pc /\ liveUrl = current_url)
           => (/\ pc' = "poll_wait"
               /\ UNCHANGED <<current_url, trackerVars, captureVars>>)
       /\ (pc = "poll_url" /\ pc' # pc /\ liveUrl # current_url)
           => (/\ pc' = "poll_navigation"
               /\ current_url' = liveUrl
               /\ UNCHANGED <<trackerVars, captureVars>>)
       /\ (pc = "poll_navigation" /\ pc' # pc)
           => Len(visits') = Len(visits) + 1
       /\ (pc \in {"poll_pages", "poll_evaluate", "poll_wait", "poll_except"})
           => UNCHANGED <<current_url, trackerVars, captureVars>>]_vars

\* C29: a field is sensitive for the recorder script exactly when it is for
\* the extractor, whatever its type and autocomplete values: its input event
\* is masked exactly when the extractor, masking, gives it textPreview "***".
C29_SameClassification ==
    \A k \in 1..Len(extracted), m \in 1..Len(masked) :
        \A i \in 1..Len(extracted[k].value.elements) :
            dom[1].tag = "input" =>
                (masked[m] <=> extracted[k].value.elements[i]["textPreview"] = "***")

\* The candidates of a list that have a higher priority than the css-path.
HigherPriority(candidates) ==
    { i \in 1..Len(candidates) : Tier(candidates[i].strategy) < Tier("css-path") }

\* C30: a candidate list of the element, the extractor's or the recorder
\* script's, has a css-path candidate exactly when fewer than 5 candidates of
\* a higher priority were produced and the computed path is not empty.
C30_CssPathWhileShort ==
    \A candidates \in CandidateLists :
        (\E i \in 1..Len(candidates) : candidates[i].strategy = "css-path")
            <=> (/\ Cardinality(HigherPriority(candidates)) < 5
                 /\ getCssPath(dom[1]) # "")

\* C31: a candidate list that has an xpath entry has no other entry.
C31_XPathAlone ==
    \A candidates \in CandidateLists :
        \A i \in 1..Len(candidates) :
            candidates[i].strategy = "xpath" => Len(candidates) = 1

\* The extractor has processed an element and given it an xpath candidate.
C31_Witness ==
    \E k \in 1..Len(extracted) :
        \E i \in 1..Len(extracted[k].value.elements) :
            LET candidates == extracted[k].value.elements[i]["candidates"]
            IN  /\ Len(candidates) = 1
                /\ candidates[1].strategy = "xpath"
                /\ candidates[1].selector = getXPath(dom[1])

\* The nine strategy tags, and the tags of the data-testid variants.
NineStrategies ==
    {"data-testid", "id", "name", "aria-label", "role+name", "label-for",
     "placeholder", "css-path", "xpath"}

VariantStrategies == {"data-test-id", "data-test"}

\* C32 as stated: the strategy of every candidate, of the extractor and of the
\* recorder script, is one of the nine tags.
C32_NineStrategies ==
    \A candidates \in CandidateLists :
        \A i \in 1..Len(candidates) : candidates[i].strategy \in NineStrategies

\* C32: the strategy of every candidate of the recorder script is one of the
\* nine tags; the strategy of every candidate of the extractor is one of the
\* nine tags or the name of a data-testid variant, data-test-id or data-test,
\* and then the selector is that attribute with the element's value of it.
C32_ElevenStrategies ==
    /\ \A k \in 1..Len(resolved) : \A i \in 1..Len(resolved[k]) :
          resolved[k][i].strategy \in NineStrategies
    /\ \A k \in 1..Len(extracted) :
          \A j \in 1..Len(extracted[k].value.elements) :
              LET candidates == extracted[k].value.elements[j]["candidates"]
              IN  \A i \in 1..Len(candidates) :
                    \/ candidates[i].strategy \in NineStrategies
                    \/ /\ candidates[i].strategy \in VariantStrategies
                       /\ getAttribute(dom[1], candidates[i].strategy) # ""
                       /\ candidates[i].selector =
                             "[" \o candidates[i].strategy \o "=\""
                                 \o getAttribute(dom[1], candidates[i].strategy)
                                 \o "\"]"

\* Both scripts have processed an element that has a data-test-id and a
\* data-test attribute and no data-testid.
C32_Witness ==
    /\ extracted # <<>> /\ resolved # <<>>
    /\ dom[1].testid = "" /\ dom[1].testid2 # "" /\ dom[1].test # ""
    /\ Len(extracted[1].value.elements) = 1
    /\ extracted[1].value.elements[1]["candidates"][1].strategy = "data-test-id"
    /\ extracted[1].value.elements[1]["candidates"][2].strategy = "data-test"
    /\ resolved[1][1].strategy = "data-testid"

\* The id of an element or, lacking an id, its name; "" when it has neither.
IdOrName(attrs) ==
    IF "id" \in DOMAIN attrs THEN attrs["id"]
    ELSE IF "name" \in DOMAIN attrs THEN attrs["name"]
    ELSE ""

\* C33: the output of the extractor has at most one element of each tag and
\* id, or name when it has no id; an element the selectors match is in the
\* output unless an earlier one has its tag and id-or-name, and the matched
\* elements that have neither id nor name are all in it.
C33_DedupByKey ==
    \A k \in 1..Len(extracted) :
        evaluation = "returns" =>
            LET out == extracted[k].value.elements
                matched == { i \in 1..Len(dom) : Matches(dom[i]) }
                keyed == { i \in matched : IdOrName(Attrs(dom[i])) # "" }
            IN  /\ \A i, j \in 1..Len(out) :
                      (/\ i # j
                       /\ out[i]["tag"] = out[j]["tag"]
                       /\ IdOrName(out[i]["attrs"]) # "")
                          => IdOrName(out[i]["attrs"]) # IdOrName(out[j]["attrs"])
                /\ Len(out) =
                      Cardinality({ <<dom[i].tag, IdOrName(Attrs(dom[i]))>> : i \in keyed })
                      + Cardinality(matched \ keyed)

\* C34: every entry of the action list is a JSON object, and get_summary()
\* returns whenever it is called.
C34_ActionsAreObjects ==
    /\ \A i \in 1..Len(actions) : actions[i].k = "dict"
    /\ ret.op = "get_summary" => ret.outcome = "ok"

\* C35: a record_action call that arrives after stop() changes neither the
\* action list nor what get_summary() gives, and once the session is stopped
\* the action list is what the lines of actions.ndjson denote.
C35_StopIsFinal ==
    [][/\ (stopCalled /\ file = None /\ ret'.op = "record_action")
            => (/\ actions' = actions
                /\ Summary(actions').exc = Summary(actions).exc
                /\ Summary(actions').total_actions = Summary(actions).total_actions)
       /\ (stopCalled' /\ file' = None /\ ret'.op = "record_action")
            => (/\ Len(disk') = Len(actions')
                /\ \A i \in 1..Len(disk') : ParseLine(disk'[i]) = actions'[i])]_vars

\* C36: at the end of every iteration of the poll loop the normalized last
\* known URL is a key of pages_visited.
C36_CurrentUrlVisited ==
    pc = "loop" => Visited(normalize_url(current_url))

\* C37: when run_interact has returned, or an exception has left it, the
\* recorder holds no open file handle.
C37_SinkClosedOnExit ==
    (mode = "interact" /\ pc \in {"meta", "exited"}) => file = None

\* C38: every input or change event the recorder script sends with masked
\* true has the value "***", whatever the kind of the element.
C38_MaskedMeansRedacted ==
    \A m \in 1..Len(masked) : masked[m] => reported[m] = Str("***")

\* The input actions sent for the field el: those in flight and those recorded.
InputActionsOf(el) ==
    { call \in {channel[i] : i \in DOMAIN channel} \cup {actionLog[i] : i \in DOMAIN actionLog} :
        /\ call.type = "input"
        /\ call.payload.doc.m["element"].m["id"] = Str(ElId[el]) }

\* C39: no input burst is lost to debouncing: a field that has received an
\* input event has a flush pending, which fires once 300 ms have passed
\* without further input, or has had an input action sent for it; input
\* events on another field do not take this away.
C39_NoBurstLost ==
    \A el \in El :
        value[el] # "" => (\/ \E t \in timers : t.el = el
                           \/ InputActionsOf(el) # {})
====
